---- MODULE Spec2Model ----
(***************************************************************************)
(* Socket-Aces: the host side of one TCP blackjack session.                *)
(*                                                                         *)
(* Server.handle_client reads the 38-byte Request, then runs               *)
(* Server.play_round once per requested round.  A round deals from a       *)
(* freshly shuffled 52-card deck, answers the player's Hit/Stand           *)
(* decisions, plays the dealer and sends the outcome.                      *)
(*                                                                         *)
(* random.shuffle can leave the deck in any order.  The model keeps the    *)
(* deck as the set of cards not yet popped and resolves the order at each  *)
(* deck.pop(); the shuffles explored are those whose popped cards lie in   *)
(* the first ShuffleWindow cards of CardListing.                           *)
(***************************************************************************)
EXTENDS Integers, Sequences, FiniteSets, TLC

VARIABLES
    pc,           \* where the session thread of handle_client stands
    rounds,       \* round count decoded from the Request
    round_num,    \* play_round's round_num argument (i + 1)
    deck,         \* play_round's deck: the cards not yet popped
    player_hand,  \* play_round's player_hand
    dealer_hand,  \* play_round's dealer_hand
    wire,         \* what the host read and wrote on conn in the current round
    ret,          \* what the last play_round call returned
    game_deck,    \* BlackjackGame.deck, a list; its last element is the top
    drawn,        \* the cards _draw_card returned since the deck was generated
    draws,        \* number of _draw_card calls made
    call,         \* the last call of a pure function: its input and its result
    handshake,    \* how the read and the decoding of the Request ended
    seeker,       \* Client.find_server: its loop and what it returned
    udp,          \* Server.broadcast_offer: where its loop stands
    conns,        \* Server.start: per connection, its session thread's state
    acceptor,     \* Server.start: the accept loop
    tally,        \* the draws of one host round, by card value
    table         \* the shipped client, its TCP connection and the host behind it

vars == <<pc, rounds, round_num, deck, player_hand, dealer_hand, wire, ret,
          game_deck, drawn, draws, call, handshake, seeker, udp, conns,
          acceptor, tally, table>>

\* Discovery and the accept loop.
others == <<seeker, udp, conns, acceptor, tally, table>>

\* What the session thread never touches.
aux == <<game_deck, drawn, draws, call, others>>

\* What the deck engine and the codec never touch.
session == <<pc, rounds, round_num, deck, player_hand, dealer_hand, wire, ret,
             handshake>>

----------------------------------------------------------------------------
(* Bounds *)

MaxRounds == 2
ShuffleWindow == 7

----------------------------------------------------------------------------
(* Protocol constants *)

\* 0xabcddcba as struct format !I lays it out: AB CD DC BA.
MAGIC_COOKIE == <<171, 205, 220, 186>>
MSG_OFFER == 2
MSG_REQUEST == 3
MSG_PAYLOAD == 4

RESULT_CONTINUE == 0
RESULT_TIE == 1
RESULT_LOSS == 2
RESULT_WIN == 3

\* A cookie that is not the magic cookie.
BadCookie == <<186, 220, 205, 171>>

----------------------------------------------------------------------------
(* Cards and scoring *)

Ranks == 1..13
Suits == 0..3

\* [(rank, suit) for suit in range(4) for rank in range(1, 14)]; shuffled.
create_deck == { <<rank, suit>> : rank \in Ranks, suit \in Suits }

\* The cards the explored shuffles bring to the top of the deck.
CardListing ==
    << <<1, 0>>, <<13, 1>>, <<6, 2>>, <<5, 0>>, <<1, 3>>, <<2, 1>>,
       <<3, 3>>, <<10, 0>>, <<4, 2>>, <<12, 3>>, <<7, 1>>, <<9, 0>> >>

Window ==
    { CardListing[k] : k \in 1..(IF ShuffleWindow < Len(CardListing)
                                  THEN ShuffleWindow ELSE Len(CardListing)) }

\* The cards deck.pop() can return.
Poppable(d) == d \cap Window

CardScore(rank) ==
    IF rank = 1 THEN 11 ELSE IF rank >= 10 THEN 10 ELSE rank

RECURSIVE Server_calculate_score(_)
Server_calculate_score(cards) ==
    IF cards = <<>> THEN 0
    ELSE CardScore(Head(cards)[1]) + Server_calculate_score(Tail(cards))

----------------------------------------------------------------------------
(* Wire codec, host side *)

\* struct.pack('!H', n): two bytes, the high one first.
U16(n) == <<n \div 256, n % 256>>

\* struct.pack('!I B B H B', MAGIC_COOKIE, MSG_PAYLOAD, result_code,
\*             card_rank, card_suit)
PayloadBytes(result_code, card_rank, card_suit) ==
    MAGIC_COOKIE \o <<MSG_PAYLOAD, result_code>> \o U16(card_rank)
        \o <<card_suit>>

\* A ServerPayload written to conn by sendall: its bytes, and the fields they
\* were packed from.
pack_payload_server(result_code, card_rank, card_suit) ==
    [dir |-> "send", result |-> result_code, rank |-> card_rank,
     suit |-> card_suit, decision |-> "-",
     bytes |-> PayloadBytes(result_code, card_rank, card_suit)]

\* send_card: a card with result code 0x0.
send_card(card) == pack_payload_server(RESULT_CONTINUE, card[1], card[2])

\* A read of the 10-byte decision and what came of it.
Read(d) ==
    [dir |-> "recv", result |-> -1, rank |-> -1, suit |-> -1, decision |-> d]

\* A str is the sequence of its code points, a bytes object the sequence of
\* its bytes.  A call that raises yields [err |-> the exception].
Raise(e) == [err |-> e]

\* str.encode('utf-8'), for code points below 0x800.
RECURSIVE Utf8Encode(_)
Utf8Encode(str) ==
    IF str = <<>> THEN <<>>
    ELSE LET c == Head(str) IN
         (IF c < 128 THEN <<c>> ELSE <<192 + (c \div 64), 128 + (c % 64)>>)
             \o Utf8Encode(Tail(str))

\* bytes.decode('utf-8'), for one- and two-byte forms; every other lead
\* byte the inputs hold (0x80..0xC1, 0xF5..0xFF) is invalid in UTF-8.
RECURSIVE Utf8Decode(_)
Utf8Decode(b) ==
    IF b = <<>> THEN [err |-> "none", str |-> <<>>]
    ELSE IF Head(b) < 128
    THEN LET rest == Utf8Decode(Tail(b)) IN
         IF rest.err # "none" THEN rest
         ELSE [err |-> "none", str |-> <<Head(b)>> \o rest.str]
    ELSE IF Head(b) \in 194..223 /\ Len(b) >= 2 /\ b[2] \in 128..191
    THEN LET rest == Utf8Decode(Tail(Tail(b))) IN
         IF rest.err # "none" THEN rest
         ELSE [err |-> "none",
               str |-> <<(Head(b) - 192) * 64 + (b[2] - 128)>> \o rest.str]
    ELSE Raise("UnicodeDecodeError")

NUL == 0

RECURSIVE LStrip(_)
LStrip(s) ==
    IF s # <<>> /\ Head(s) = NUL THEN LStrip(Tail(s)) ELSE s

RECURSIVE RStrip(_)
RStrip(s) ==
    IF s # <<>> /\ s[Len(s)] = NUL THEN RStrip(SubSeq(s, 1, Len(s) - 1)) ELSE s

\* str.strip('\x00')
Strip(s) == RStrip(LStrip(s))

\* "Hit", "Hittt" and "Stand"
Hit == <<72, 105, 116>>
Hittt == <<72, 105, 116, 116, 116>>
Stand == <<83, 116, 97, 110, 100>>

\* The 5-byte decision fields the peer may put on the wire: "Hittt", "Stand",
\* "Hit\0\0", "hittt", "Stan\0", "stand", "HITTT", five NULs, "Hit" between
\* NULs, and "Hitt" followed by a byte that is not UTF-8.
DecisionFields ==
    { Hittt, Stand,
      <<72, 105, 116, NUL, NUL>>,
      <<104, 105, 116, 116, 116>>,
      <<83, 116, 97, 110, NUL>>,
      <<115, 116, 97, 110, 100>>,
      <<72, 73, 84, 84, 84>>,
      <<NUL, NUL, NUL, NUL, NUL>>,
      <<NUL, 72, 105, 116, NUL>>,
      <<72, 105, 116, 116, 255>> }

\* struct.pack('!I B 5s', cookie, msg_type, field)
ClientPayloadBytes(cookie, msg_type, field) == cookie \o <<msg_type>> \o field

\* The 10-byte ClientPayloads the peer may put on the wire.
DecisionInputs ==
    { ClientPayloadBytes(MAGIC_COOKIE, MSG_PAYLOAD, d) : d \in DecisionFields }
    \cup { ClientPayloadBytes(BadCookie, MSG_PAYLOAD, Hittt),
           ClientPayloadBytes(MAGIC_COOKIE, MSG_REQUEST, Stand) }

\* A plausible slip: the decision is compared after stripping, against "Hit".
unpack_player_decision_lenient(data) ==
    IF Len(data) < 10 THEN Raise("Player Payload packet too short")
    ELSE IF SubSeq(data, 1, 4) # MAGIC_COOKIE THEN Raise("Invalid Magic Cookie")
    ELSE IF data[5] # MSG_PAYLOAD
    THEN Raise("Invalid Message Type (Expected Payload)")
    ELSE LET dec == Utf8Decode(SubSeq(data, 6, 10)) IN
         IF dec.err # "none" THEN Raise("UnicodeDecodeError")
         ELSE IF Strip(dec.str) \in {Hit, Hittt}
         THEN [err |-> "none", decision |-> Hit]
         ELSE IF Strip(dec.str) = Stand
         THEN [err |-> "none", decision |-> Stand]
         ELSE Raise("Protocol Violation")

\* BlackjackServerProtocol.unpack_player_decision.  UnicodeDecodeError is a
\* ValueError, as the three raised in the function are.
unpack_player_decision(data) ==
    IF Len(data) < 10 THEN Raise("Player Payload packet too short")
    ELSE LET cookie == SubSeq(data, 1, 4)
             msg_type == data[5]
             decision_bytes == SubSeq(data, 6, 10)
         IN  IF cookie # MAGIC_COOKIE THEN Raise("Invalid Magic Cookie")
             ELSE IF msg_type # MSG_PAYLOAD
             THEN Raise("Invalid Message Type (Expected Payload)")
             ELSE LET dec == Utf8Decode(decision_bytes) IN
                  IF dec.err # "none" THEN Raise("UnicodeDecodeError")
                  ELSE LET raw_decision == Strip(dec.str) IN
                       IF raw_decision = Hittt
                       THEN [err |-> "none", decision |-> Hit]
                       ELSE IF raw_decision = Stand
                       THEN [err |-> "none", decision |-> Stand]
                       ELSE Raise("Protocol Violation")

\* bytes.ljust(n, b'\x00')
LJust(b, n) ==
    IF Len(b) >= n THEN b ELSE b \o [i \in 1..(n - Len(b)) |-> NUL]

\* struct.pack('!I B B 32s', cookie, msg_type, rounds, name_bytes)
RequestBytes(cookie, msg_type, r, name_bytes) ==
    cookie \o <<msg_type, r>> \o name_bytes

\* "TheHighRollers" as the client pads it to 32 bytes.
TeamNameField ==
    LJust(<<84, 104, 101, 72, 105, 103, 104, 82, 111, 108, 108, 101, 114, 115>>,
          32)

\* The 38-byte Requests the peer may put on the wire.
RequestInputs ==
    { RequestBytes(MAGIC_COOKIE, MSG_REQUEST, r, TeamNameField) :
        r \in 0..MaxRounds }
    \cup { RequestBytes(BadCookie, MSG_REQUEST, 1, TeamNameField),
           RequestBytes(MAGIC_COOKIE, MSG_PAYLOAD, 1, TeamNameField),
           RequestBytes(MAGIC_COOKIE, MSG_REQUEST, 1, LJust(<<255>>, 32)) }

\* BlackjackServerProtocol.unpack_request
unpack_request(data) ==
    IF Len(data) < 38 THEN Raise("Request packet too short")
    ELSE LET cookie == SubSeq(data, 1, 4)
             msg_type == data[5]
             r == data[6]
             name_bytes == SubSeq(data, 7, 38)
         IN  IF cookie # MAGIC_COOKIE THEN Raise("Invalid Magic Cookie")
             ELSE IF msg_type # MSG_REQUEST
             THEN Raise("Invalid Message Type (Expected Request)")
             ELSE LET dec == Utf8Decode(name_bytes) IN
                  IF dec.err # "none" THEN Raise("UnicodeDecodeError")
                  ELSE [err |-> "none", rounds |-> r,
                        team_name |-> Strip(dec.str)]

\* A decision that did not decode was read in this round.
HasInvalidRead == \E i \in DOMAIN wire : wire[i] = Read("ValueError")

----------------------------------------------------------------------------
(* The session thread *)

Init ==
    /\ pc = "AwaitRequest"
    /\ rounds = 0
    /\ round_num = 0
    /\ deck = {}
    /\ player_hand = <<>>
    /\ dealer_hand = <<>>
    /\ wire = <<>>
    /\ ret = "none"
    /\ game_deck = <<>>
    /\ drawn = <<>>
    /\ draws = 0
    /\ call = [fn |-> "none"]
    /\ handshake = "pending"
    /\ seeker = [pc |-> "idle"]
    /\ udp = [pc |-> "idle"]
    /\ conns = <<>>
    /\ acceptor = [pc |-> "idle"]
    /\ tally = [phase |-> "idle"]
    /\ table = [pc |-> "idle"]

\* handle_client, lines 100-104: the Request does not arrive.
HandshakeRecvFail ==
    /\ pc = "AwaitRequest"
    /\ \E e \in {"Timeout", "Disconnect"} : handshake' = e
    /\ pc' = "Closed"
    /\ UNCHANGED <<rounds, round_num, deck, player_hand, dealer_hand, wire, ret>>
    /\ UNCHANGED aux

\* A plausible slip: a Request that does not decode is read again.
HandshakeDecodeFail_retry ==
    /\ pc = "AwaitRequest"
    /\ \E data \in RequestInputs :
        /\ unpack_request(data).err # "none"
        /\ handshake' = "ValueError"
        /\ pc' = "AwaitRequest"
    /\ UNCHANGED <<rounds, round_num, deck, player_hand, dealer_hand, wire, ret>>
    /\ UNCHANGED aux

\* handle_client, lines 107-112: the Request does not decode.
HandshakeDecodeFail ==
    /\ pc = "AwaitRequest"
    /\ \E data \in RequestInputs :
        /\ unpack_request(data).err # "none"
        /\ handshake' = "ValueError"
        /\ pc' = "Closed"
    /\ UNCHANGED <<rounds, round_num, deck, player_hand, dealer_hand, wire, ret>>
    /\ UNCHANGED aux

\* handle_client, lines 107-115: the Request decodes; the round loop starts.
HandshakeOk ==
    /\ pc = "AwaitRequest"
    /\ \E data \in RequestInputs :
        /\ unpack_request(data).err = "none"
        /\ handshake' = "ok"
        /\ rounds' = unpack_request(data).rounds
        /\ IF unpack_request(data).rounds >= 1
           THEN pc' = "RoundStart" /\ round_num' = 1
           ELSE pc' = "Closed" /\ round_num' = 0
    /\ UNCHANGED <<deck, player_hand, dealer_hand, wire, ret>>
    /\ UNCHANGED aux

\* play_round returns v to the round loop of handle_client.
Return(v) ==
    /\ ret' = v
    /\ pc' = "RoundDone"
    /\ UNCHANGED round_num

\* A plausible slip: the break is missing, the loop goes on after a failure.
NextRound_no_break ==
    /\ pc = "RoundDone"
    /\ IF round_num < rounds
       THEN pc' = "RoundStart" /\ round_num' = round_num + 1
       ELSE pc' = "Closed" /\ round_num' = round_num
    /\ deck' = {}
    /\ player_hand' = <<>>
    /\ dealer_hand' = <<>>
    /\ wire' = <<>>
    /\ ret' = "none"
    /\ UNCHANGED rounds
    /\ UNCHANGED aux
    /\ UNCHANGED handshake

\* A plausible slip: the rounds are played over and over while they succeed.
NextRound_never_ends ==
    /\ pc = "RoundDone"
    /\ IF ret = "True"
       THEN /\ pc' = "RoundStart"
            /\ round_num' = IF round_num < rounds THEN round_num + 1 ELSE 1
       ELSE pc' = "Closed" /\ round_num' = round_num
    /\ deck' = {}
    /\ player_hand' = <<>>
    /\ dealer_hand' = <<>>
    /\ wire' = <<>>
    /\ ret' = "none"
    /\ UNCHANGED rounds
    /\ UNCHANGED aux
    /\ UNCHANGED handshake

\* A plausible slip: deck and hands are attributes that outlive the round.
NextRound_keeps_locals ==
    /\ pc = "RoundDone"
    /\ IF ret = "True" /\ round_num < rounds
       THEN pc' = "RoundStart" /\ round_num' = round_num + 1
       ELSE pc' = "Closed" /\ round_num' = round_num
    /\ wire' = <<>>
    /\ ret' = "none"
    /\ UNCHANGED <<rounds, deck, player_hand, dealer_hand>>
    /\ UNCHANGED aux
    /\ UNCHANGED handshake

\* handle_client, lines 115-126: play_round has returned and its locals are
\* gone; the loop goes on to the next round, or ends and conn is closed.
NextRound ==
    /\ pc = "RoundDone"
    /\ IF ret = "True" /\ round_num < rounds
       THEN pc' = "RoundStart" /\ round_num' = round_num + 1
       ELSE pc' = "Closed" /\ round_num' = round_num
    /\ deck' = {}
    /\ player_hand' = <<>>
    /\ dealer_hand' = <<>>
    /\ wire' = <<>>
    /\ ret' = "none"
    /\ UNCHANGED rounds
    /\ UNCHANGED aux
    /\ UNCHANGED handshake

\* A plausible slip: the dealer's second card goes out with the first deal.
initial_cards_all_four(player, dealer) ==
    <<send_card(player[1]), send_card(player[2]), send_card(dealer[1]),
      send_card(dealer[2])>>

\* A plausible slip: the dealer's card is sent before the player's.
initial_cards_dealer_first(player, dealer) ==
    <<send_card(dealer[1]), send_card(player[1]), send_card(player[2])>>

\* A plausible slip: the dealer's visible card is not sent.
initial_cards_player_only(player, dealer) ==
    <<send_card(player[1]), send_card(player[2])>>

\* play_round, lines 141-144: the three cards of the initial deal, in the
\* order of the send_card calls.
initial_cards(player, dealer) ==
    <<send_card(player[1]), send_card(player[2]), send_card(dealer[1])>>

\* play_round, lines 133-148: shuffle, pop four cards, send three of them.
\* sent is the number of sendall calls that succeeded.
Deal ==
    /\ pc = "RoundStart"
    /\ \E p1 \in Poppable(create_deck) :
       \E p2 \in Poppable(create_deck \ {p1}) :
       \E d1 \in Poppable(create_deck \ {p1, p2}) :
       \E d2 \in Poppable(create_deck \ {p1, p2, d1}) :
        LET cards == initial_cards(<<p1, p2>>, <<d1, d2>>) IN
        \E sent \in 0..Len(cards) :
            /\ deck' = create_deck \ {p1, p2, d1, d2}
            /\ player_hand' = <<p1, p2>>
            /\ dealer_hand' = <<d1, d2>>
            /\ wire' = SubSeq(cards, 1, sent)
            /\ IF sent = Len(cards)
               THEN pc' = "PlayerTurn" /\ ret' = "running"
                    /\ UNCHANGED round_num
               ELSE Return("False")
    /\ UNCHANGED rounds
    /\ UNCHANGED aux
    /\ UNCHANGED handshake

\* play_round, lines 151 and 191: the two flags are set once and never
\* assigned again.
player_busted == FALSE
dealer_busted == FALSE

\* A plausible slip: a decision that does not arrive counts as Stand.
PlayerRecvFail_as_stand ==
    /\ pc = "PlayerTurn"
    /\ \E e \in {"Timeout", "Disconnect"} :
        wire' = Append(wire, Read(e))
    /\ pc' = "DealerReveal"
    /\ UNCHANGED <<rounds, round_num, deck, player_hand, dealer_hand, ret>>
    /\ UNCHANGED aux
    /\ UNCHANGED handshake

\* play_round, lines 153-155 and 183-188: recv_exact raises socket.timeout
\* or ConnectionError.
PlayerRecvFail ==
    /\ pc = "PlayerTurn"
    /\ \E e \in {"Timeout", "Disconnect"} :
        wire' = Append(wire, Read(e))
    /\ Return("False")
    /\ UNCHANGED <<rounds, deck, player_hand, dealer_hand>>
    /\ UNCHANGED aux
    /\ UNCHANGED handshake

\* A plausible slip: a decision that does not decode is skipped and the next
\* one awaited.
PlayerInvalid_tolerant ==
    /\ pc = "PlayerTurn"
    /\ \E data \in DecisionInputs :
        /\ unpack_player_decision(data).err # "none"
        /\ wire' = Append(wire, Read("ValueError"))
    /\ ~HasInvalidRead
    /\ UNCHANGED <<pc, rounds, round_num, deck, player_hand, dealer_hand, ret>>
    /\ UNCHANGED aux
    /\ UNCHANGED handshake

\* play_round, lines 158 and 179-182: the decision does not decode.
PlayerInvalid ==
    /\ pc = "PlayerTurn"
    /\ \E data \in DecisionInputs :
        /\ unpack_player_decision(data).err # "none"
        /\ wire' = Append(wire, Read("ValueError"))
    /\ Return("False")
    /\ UNCHANGED <<rounds, deck, player_hand, dealer_hand>>
    /\ UNCHANGED aux
    /\ UNCHANGED handshake

\* A plausible slip: the bust goes out with the placeholder card (0, 0).
hit_reply_zero_card(new_card, score) ==
    IF score > 21
    THEN pack_payload_server(RESULT_LOSS, 0, 0)
    ELSE send_card(new_card)

\* A plausible slip: the busting card goes out as an ordinary card.
hit_reply_no_loss(new_card, score) == send_card(new_card)

\* play_round, lines 166-174: the packet that answers a Hit.
hit_reply(new_card, score) ==
    IF score > 21
    THEN pack_payload_server(RESULT_LOSS, new_card[1], new_card[2])
    ELSE send_card(new_card)

\* A plausible slip: the return after the bust message is missing.
hit_ends_round_never(hand, score) == FALSE

\* A plausible slip: the player loop also ends after a fixed number of hits.
hit_ends_round_capped(hand, score) == score > 21 \/ Len(hand) >= 4

\* play_round, lines 166-174: after a Hit the round is over (return True)
\* when the score exceeds 21; otherwise the loop waits for the next decision.
hit_ends_round(hand, score) == score > 21

\* play_round, lines 160-174: Hit.  ok is whether sendall succeeded.  A
\* sendall that raises leaves play_round through an except clause (or, for an
\* exception none of them names, through handle_client's), and either way no
\* further round is played and conn is closed.
PlayerHit ==
    /\ pc = "PlayerTurn"
    /\ \E data \in DecisionInputs :
        /\ unpack_player_decision(data).err = "none"
        /\ unpack_player_decision(data).decision = Hit
        /\ \E new_card \in Poppable(deck) : \E ok \in BOOLEAN :
            LET hand == Append(player_hand, new_card)
                score == Server_calculate_score(hand)
                read == Append(wire, Read("Hit"))
            IN  /\ deck' = deck \ {new_card}
                /\ player_hand' = hand
                /\ IF ~ok
                   THEN /\ wire' = read
                        /\ Return("False")
                   ELSE /\ wire' = Append(read, hit_reply(new_card, score))
                        /\ IF hit_ends_round(hand, score)
                           THEN Return("True")
                           ELSE UNCHANGED <<pc, round_num, ret>>
    /\ UNCHANGED <<rounds, dealer_hand>>
    /\ UNCHANGED aux
    /\ UNCHANGED handshake

\* play_round, lines 176-177: Stand leaves the player loop.
PlayerStand ==
    /\ pc = "PlayerTurn"
    /\ \E data \in DecisionInputs :
        /\ unpack_player_decision(data).err = "none"
        /\ unpack_player_decision(data).decision = Stand
        /\ wire' = Append(wire, Read("Stand"))
    /\ pc' = "DealerReveal"
    /\ UNCHANGED <<rounds, round_num, deck, player_hand, dealer_hand, ret>>
    /\ UNCHANGED aux
    /\ UNCHANGED handshake

\* A plausible slip: the dealer also draws on 17.
DealerMustDraw_on_17(hand) == Server_calculate_score(hand) <= 17

\* play_round, line 198: the dealer loop's condition.
DealerMustDraw(hand) == Server_calculate_score(hand) < 17

\* play_round, lines 192-195 and 214-215: the hidden card is revealed.
DealerReveal ==
    /\ pc = "DealerReveal"
    /\ ~player_busted
    /\ \E ok \in BOOLEAN :
        IF ok
        THEN /\ wire' = Append(wire, send_card(dealer_hand[2]))
             /\ pc' = IF DealerMustDraw(dealer_hand)
                      THEN "DealerLoop" ELSE "Resolve"
             /\ UNCHANGED <<round_num, ret>>
        ELSE /\ wire' = wire
             /\ Return("False")
    /\ UNCHANGED <<rounds, deck, player_hand, dealer_hand>>
    /\ UNCHANGED aux
    /\ UNCHANGED handshake

\* A plausible slip: the dealer's busting card goes out as an ordinary card.
dealer_reply_no_win(new_card, dealer_score) == send_card(new_card)

\* play_round, lines 205-213: the packet that carries a card the dealer drew.
dealer_reply(new_card, dealer_score) ==
    IF dealer_score > 21
    THEN pack_payload_server(RESULT_WIN, new_card[1], new_card[2])
    ELSE send_card(new_card)

\* play_round, lines 198-215: one pass of the dealer loop.
DealerDraw ==
    /\ pc = "DealerLoop"
    /\ DealerMustDraw(dealer_hand)
    /\ \E new_card \in Poppable(deck) : \E ok \in BOOLEAN :
        LET hand == Append(dealer_hand, new_card)
            dealer_score == Server_calculate_score(hand)
        IN  /\ deck' = deck \ {new_card}
            /\ dealer_hand' = hand
            /\ IF ~ok
               THEN /\ wire' = wire
                    /\ Return("False")
               ELSE /\ wire' = Append(wire, dealer_reply(new_card, dealer_score))
                    /\ IF dealer_score > 21
                       THEN Return("True")
                       ELSE /\ pc' = IF DealerMustDraw(hand)
                                     THEN "DealerLoop" ELSE "Resolve"
                            /\ UNCHANGED <<round_num, ret>>
    /\ UNCHANGED <<rounds, player_hand>>
    /\ UNCHANGED aux
    /\ UNCHANGED handshake

\* A plausible slip: the final else is missing, so a tie leaves the initial 0.
result_code_no_tie(player_score, dealer_score) ==
    IF player_busted THEN RESULT_LOSS
    ELSE IF dealer_busted THEN RESULT_WIN
    ELSE IF player_score > dealer_score THEN RESULT_WIN
    ELSE IF dealer_score > player_score THEN RESULT_LOSS
    ELSE 0

\* A plausible slip: the two comparisons are exchanged.
result_code_swapped(player_score, dealer_score) ==
    IF player_busted THEN RESULT_LOSS
    ELSE IF dealer_busted THEN RESULT_WIN
    ELSE IF player_score > dealer_score THEN RESULT_LOSS
    ELSE IF dealer_score > player_score THEN RESULT_WIN
    ELSE RESULT_TIE

\* play_round, lines 218-232: the result code of the final comparison.
result_code(player_score, dealer_score) ==
    IF player_busted THEN RESULT_LOSS
    ELSE IF dealer_busted THEN RESULT_WIN
    ELSE IF player_score > dealer_score THEN RESULT_WIN
    ELSE IF dealer_score > player_score THEN RESULT_LOSS
    ELSE RESULT_TIE

\* play_round, lines 217-241: the outcome message with the card zeroed.
Resolve ==
    /\ pc = "Resolve"
    /\ \E ok \in BOOLEAN :
        LET player_score == Server_calculate_score(player_hand)
            dealer_score == Server_calculate_score(dealer_hand)
        IN  IF ok
            THEN /\ wire' = Append(wire,
                        pack_payload_server(
                            result_code(player_score, dealer_score), 0, 0))
                 /\ Return("True")
            ELSE /\ wire' = wire
                 /\ Return("False")
    /\ UNCHANGED <<rounds, deck, player_hand, dealer_hand>>
    /\ UNCHANGED aux
    /\ UNCHANGED handshake

Next ==
    \/ HandshakeRecvFail
    \/ HandshakeDecodeFail
    \/ HandshakeOk
    \/ Deal
    \/ NextRound
    \/ PlayerRecvFail
    \/ PlayerInvalid
    \/ PlayerHit
    \/ PlayerStand
    \/ DealerReveal
    \/ DealerDraw
    \/ Resolve

Spec == Init /\ [][Next]_vars

----------------------------------------------------------------------------
(* Reading the round's transcript *)

IsSend(m) == m.dir = "send"
IsRecv(m) == m.dir = "recv"

\* m is a ServerPayload carrying card.
Carries(m, card) == IsSend(m) /\ m.rank = card[1] /\ m.suit = card[2]

\* m is a ServerPayload whose result closes the round.
IsOutcome(m) == IsSend(m) /\ m.result \in {RESULT_TIE, RESULT_LOSS, RESULT_WIN}

\* m is a ServerPayload with the card fields zeroed.
IsZeroCard(m) == IsSend(m) /\ m.rank = 0 /\ m.suit = 0

HasRead(d) == \E i \in DOMAIN wire : wire[i] = Read(d)

\* Index of the last decision read in the round, 0 when there is none.
LastRead ==
    LET idx == { i \in DOMAIN wire : IsRecv(wire[i]) }
    IN  IF idx = {} THEN 0 ELSE CHOOSE i \in idx : \A j \in idx : j <= i

\* What the host wrote after its last read.
SentSinceLastRead == SubSeq(wire, LastRead + 1, Len(wire))

Last(seq) == seq[Len(seq)]

\* The last decision read was a Hit that took the host's score above 21.
PlayerBustState ==
    /\ LastRead > 0
    /\ wire[LastRead] = Read("Hit")
    /\ Server_calculate_score(player_hand) > 21

\* A card drawn in the dealer loop took the host's dealer score above 21.
DealerBustState ==
    /\ Len(dealer_hand) > 2
    /\ Server_calculate_score(dealer_hand) > 21

----------------------------------------------------------------------------
(* Properties of the round.  A score here is the score play_round itself   *)
(* computes, Server_calculate_score.                                       *)

\* C1: hidden-card invariant.  In every round the dealer's second card
\* (dealer_hand[1] of the source) is on the wire only after a "Stand" was
\* read in that round; so it is never sent in a round that ends by a player
\* bust or by a failure during the player turn.
C1_HiddenCardAfterStand ==
    Len(dealer_hand) >= 2 =>
        \A i \in DOMAIN wire :
            Carries(wire[i], dealer_hand[2]) =>
                \E j \in 1..(i - 1) : wire[j] = Read("Stand")

\* The hidden card has been revealed, and the round went on to its end.
C1_Witness ==
    /\ pc = "RoundDone"
    /\ Len(dealer_hand) >= 2
    /\ \E i \in DOMAIN wire : Carries(wire[i], dealer_hand[2])

\* C2: a round that play_round finishes with True has sent exactly one
\* ServerPayload with result Tie, Loss or Win, and that is the last message
\* of the round.
C2_ExactlyOneOutcome ==
    (pc = "RoundDone" /\ ret = "True") =>
        /\ Cardinality({ i \in DOMAIN wire : IsOutcome(wire[i]) }) = 1
        /\ wire # <<>>
        /\ IsOutcome(Last(wire))

\* A round closed by the zero-card Tie message.
C2_Witness ==
    /\ pc = "RoundDone"
    /\ ret = "True"
    /\ wire # <<>>
    /\ Last(wire) = pack_payload_server(RESULT_TIE, 0, 0)

\* C3: player bust.  When a Hit takes the player's score above 21, what the
\* host sends next is one ServerPayload with result Loss carrying the card
\* just drawn (nothing when that sendall fails), and the round is over: the
\* hidden card is not sent, the dealer draws nothing, nothing else is sent.
C3_PlayerBust ==
    PlayerBustState =>
        /\ pc = "RoundDone"
        /\ SentSinceLastRead \in
              { <<>>,
                <<pack_payload_server(RESULT_LOSS, Last(player_hand)[1],
                                      Last(player_hand)[2])>> }
        /\ (ret = "True") <=> (SentSinceLastRead # <<>>)
        /\ Len(dealer_hand) = 2
        /\ \A i \in DOMAIN wire : ~Carries(wire[i], dealer_hand[2])

\* A Hit busted the player and the Loss message went out.
C3_Witness ==
    /\ PlayerBustState
    /\ ret = "True"
    /\ Last(wire).result = RESULT_LOSS

\* C4: dealer bust.  When a card drawn in the dealer loop takes the dealer's
\* score above 21, the message carrying that card has result Win, the dealer
\* draws no further card, and nothing else (no zero-card outcome message) is
\* sent for the round.
C4_DealerBust ==
    /\ \A k \in 3..Len(dealer_hand) :
          Server_calculate_score(SubSeq(dealer_hand, 1, k)) > 21
              => k = Len(dealer_hand)
    /\ DealerBustState =>
          /\ pc = "RoundDone"
          /\ \A i \in DOMAIN wire : ~IsZeroCard(wire[i])
          /\ \A i \in DOMAIN wire :
                Carries(wire[i], Last(dealer_hand)) =>
                    /\ wire[i].result = RESULT_WIN
                    /\ i = Len(wire)
          /\ (ret = "True") <=> Carries(Last(wire), Last(dealer_hand))

\* The dealer drew into a bust and the Win message went out.
C4_Witness ==
    /\ DealerBustState
    /\ ret = "True"
    /\ Last(wire).result = RESULT_WIN

\* C5: resolved outcome.  At the final comparison the host sends one
\* ServerPayload with rank 0 and suit 0; its result is Win when the player's
\* score is the higher, Loss when the dealer's is, Tie when they are equal,
\* and never Continue.  A round holds at most one such message, as its last.
C5_ResolvedOutcome ==
    /\ \A i \in DOMAIN wire :
          IsZeroCard(wire[i]) =>
              LET player_score == Server_calculate_score(player_hand)
                  dealer_score == Server_calculate_score(dealer_hand)
              IN  /\ i = Len(wire)
                  /\ pc = "RoundDone"
                  /\ wire[i].result =
                        IF player_score > dealer_score THEN RESULT_WIN
                        ELSE IF dealer_score > player_score THEN RESULT_LOSS
                        ELSE RESULT_TIE
                  /\ wire[i].result # RESULT_CONTINUE
    /\ (pc = "RoundDone" /\ ret = "True" /\ HasRead("Stand")
            /\ ~DealerBustState) => IsZeroCard(Last(wire))

\* The final comparison found the player's score the higher.
C5_Witness ==
    /\ pc = "RoundDone"
    /\ wire # <<>>
    /\ Last(wire) = pack_payload_server(RESULT_WIN, 0, 0)
    /\ Server_calculate_score(player_hand) <= 21

\* C6: the zero-card outcome message is sent only when the dealer stood
\* without busting: whenever it is on the wire, the dealer's score as the
\* host computes it lies in 17..21.
C6_ResolvedDealerStood ==
    \A i \in DOMAIN wire :
        IsZeroCard(wire[i]) =>
            Server_calculate_score(dealer_hand) \in 17..21

\* Number of "Hit" decisions read in the round.
HitsRead == Cardinality({ i \in DOMAIN wire : wire[i] = Read("Hit") })

\* C7: the player-turn loop is left only on a "Stand", on a Hit that takes
\* the score above 21, or on a transport or protocol failure; never on the
\* number of decisions.  After a Hit that keeps the score at 21 or below the
\* host waits for the next decision.
C7_PlayerLoopExit ==
    /\ pc = "PlayerTurn" => (~HasRead("Stand") /\ ret = "running")
    /\ pc \in {"DealerReveal", "DealerLoop", "Resolve"} =>
          (LastRead > 0 /\ wire[LastRead] = Read("Stand"))
    /\ (pc = "RoundDone" /\ ret = "True") =>
          (HasRead("Stand") \/ PlayerBustState)
    /\ ( /\ LastRead > 0
         /\ LastRead < Len(wire)
         /\ wire[LastRead] = Read("Hit")
         /\ Server_calculate_score(player_hand) <= 21 ) => pc = "PlayerTurn"

\* The host waits for a third decision after two Hits that did not bust.
C7_Witness ==
    /\ pc = "PlayerTurn"
    /\ HitsRead >= 2
    /\ Len(player_hand) = 4

\* C8: the dealer turn starts only after "Stand" (the player did not bust);
\* every dealer card is drawn at a dealer score below 17, the loop goes on
\* exactly while the score is below 17, and it is left at the first score
\* that is 17 or more (a bust included).
C8_DealerLoop ==
    /\ ( \/ pc \in {"DealerReveal", "DealerLoop", "Resolve"}
         \/ Len(dealer_hand) > 2
         \/ (Len(dealer_hand) >= 2 /\
             \E i \in DOMAIN wire : Carries(wire[i], dealer_hand[2])) )
       => (HasRead("Stand") /\ ~PlayerBustState)
    /\ \A k \in 3..Len(dealer_hand) :
          Server_calculate_score(SubSeq(dealer_hand, 1, k - 1)) < 17
    /\ pc = "DealerLoop" => Server_calculate_score(dealer_hand) < 17
    /\ pc = "Resolve" => Server_calculate_score(dealer_hand) >= 17
    /\ (\E i \in DOMAIN wire : IsZeroCard(wire[i]))
          => Server_calculate_score(dealer_hand) >= 17

\* The dealer drew twice and then stood.
C8_Witness ==
    /\ pc = "Resolve"
    /\ Len(dealer_hand) = 4

\* The round has dealt its cards.
Dealt == pc \in {"PlayerTurn", "DealerReveal", "DealerLoop", "Resolve", "RoundDone"}

\* C9: dealing.  A round starts by drawing two player cards and two dealer
\* cards from the deck and sending three ServerPayloads with result Continue:
\* player card 1, player card 2, dealer card 1, all before the first decision
\* is read.
C9_Dealing ==
    Dealt =>
        /\ Len(player_hand) >= 2
        /\ Len(dealer_hand) >= 2
        /\ Cardinality(deck) + Len(player_hand) + Len(dealer_hand) = 52
        /\ LET first3 ==
                   <<pack_payload_server(RESULT_CONTINUE,
                         player_hand[1][1], player_hand[1][2]),
                     pack_payload_server(RESULT_CONTINUE,
                         player_hand[2][1], player_hand[2][2]),
                     pack_payload_server(RESULT_CONTINUE,
                         dealer_hand[1][1], dealer_hand[1][2])>>
           IN  /\ \A i \in 1..3 : i <= Len(wire) => wire[i] = first3[i]
               /\ LastRead > 0 => LastRead >= 4
               /\ Len(wire) < 3 => (pc = "RoundDone" /\ ret = "False")

\* The three cards are out and the host waits for the first decision.
C9_Witness ==
    /\ pc = "PlayerTurn"
    /\ Len(wire) = 3
    /\ Cardinality(deck) = 48

\* m is a ServerPayload with result r carrying a card of the deck.
IsCardMsg(m, r) ==
    IsSend(m) /\ m.result = r /\ m.rank \in Ranks /\ m.suit \in Suits

\* One step of the automaton of the per-round wire sequence.
WireStep(st, m) ==
    CASE st = "deal1" -> IF IsCardMsg(m, RESULT_CONTINUE) THEN "deal2" ELSE "bad"
      [] st = "deal2" -> IF IsCardMsg(m, RESULT_CONTINUE) THEN "deal3" ELSE "bad"
      [] st = "deal3" -> IF IsCardMsg(m, RESULT_CONTINUE) THEN "decision" ELSE "bad"
      [] st = "decision" ->
            IF m = Read("Hit") THEN "hit"
            ELSE IF m = Read("Stand") THEN "stand"
            ELSE IF IsRecv(m) THEN "aborted"
            ELSE "bad"
      [] st = "hit" ->
            IF IsCardMsg(m, RESULT_CONTINUE) THEN "decision"
            ELSE IF IsCardMsg(m, RESULT_LOSS) THEN "end"
            ELSE "bad"
      [] st = "stand" -> IF IsCardMsg(m, RESULT_CONTINUE) THEN "dealer" ELSE "bad"
      [] st = "dealer" ->
            IF IsCardMsg(m, RESULT_CONTINUE) THEN "dealer"
            ELSE IF IsCardMsg(m, RESULT_WIN) THEN "end"
            ELSE IF IsZeroCard(m) /\ IsOutcome(m) THEN "end"
            ELSE "bad"
      [] OTHER -> "bad"

RECURSIVE WireRun(_, _)
WireRun(st, w) ==
    IF w = <<>> THEN st ELSE WireRun(WireStep(st, Head(w)), Tail(w))

\* C10: no pipelining or reordering.  The round's wire sequence is always a
\* prefix of: three initial cards, then (decision, card)*, then either the
\* bust message or (hidden card, dealer cards*, one terminal message).  Each
\* "Hit" is answered by exactly one ServerPayload before the next read, no
\* other read is answered with a card, and a round that returns True has run
\* the sequence to its end.
C10_WireSequence ==
    LET st == WireRun("deal1", wire)
    IN  /\ st # "bad"
        /\ pc = "PlayerTurn" => st = "decision"
        /\ pc = "DealerReveal" => st = "stand"
        /\ pc \in {"DealerLoop", "Resolve"} => st = "dealer"
        /\ (pc = "RoundDone" /\ ret = "True") => st = "end"
        /\ (pc = "RoundDone" /\ ret = "False") => st # "end"

\* A full round: a Hit, a Stand, a dealer draw and the terminal message.
C10_Witness ==
    /\ pc = "RoundDone"
    /\ ret = "True"
    /\ HitsRead >= 1
    /\ HasRead("Stand")
    /\ Len(dealer_hand) >= 3
    /\ IsZeroCard(Last(wire))

----------------------------------------------------------------------------
(* Hand scoring: BlackjackGame.calculate_score, Client._calculate_hand_value *)

MaxHandLen == 4

\* The for loop of calculate_score: <<score, num_aces>> after the hand.
RECURSIVE Tally(_)
Tally(hand) ==
    IF hand = <<>> THEN <<0, 0>>
    ELSE LET t == Tally(SubSeq(hand, 1, Len(hand) - 1))
             rank == hand[Len(hand)][1]
         IN  IF rank = 1 THEN <<t[1] + 11, t[2] + 1>>
             ELSE IF rank >= 10 THEN <<t[1] + 10, t[2]>>
             ELSE <<t[1] + rank, t[2]>>

\* while score > 21 and num_aces > 0: score -= 10; num_aces -= 1
RECURSIVE AdjustAces(_, _)
AdjustAces(score, num_aces) ==
    IF score > 21 /\ num_aces > 0
    THEN AdjustAces(score - 10, num_aces - 1)
    ELSE score

\* A plausible slip: "if" in place of "while", one Ace adjusted at most.
calculate_score_single_adjust(hand) ==
    LET t == Tally(hand) IN
    IF t[1] > 21 /\ t[2] > 0 THEN t[1] - 10 ELSE t[1]

\* A plausible slip: each Ace is valued as it is met, 11 if that fits the
\* running total and 1 otherwise.
RECURSIVE calculate_score_greedy(_)
calculate_score_greedy(hand) ==
    IF hand = <<>> THEN 0
    ELSE LET before == calculate_score_greedy(SubSeq(hand, 1, Len(hand) - 1))
             rank == hand[Len(hand)][1]
         IN  IF rank = 1 THEN (IF before + 11 <= 21 THEN before + 11
                               ELSE before + 1)
             ELSE IF rank >= 10 THEN before + 10
             ELSE before + rank

\* BlackjackGame.calculate_score
calculate_score(hand) ==
    LET t == Tally(hand) IN AdjustAces(t[1], t[2])

\* The for loop of _calculate_hand_value, over a list of ranks.
RECURSIVE RankTally(_)
RankTally(hand) ==
    IF hand = <<>> THEN <<0, 0>>
    ELSE LET t == RankTally(SubSeq(hand, 1, Len(hand) - 1))
             rank == hand[Len(hand)]
         IN  IF rank = 1 THEN <<t[1] + 11, t[2] + 1>>
             ELSE IF rank >= 10 THEN <<t[1] + 10, t[2]>>
             ELSE <<t[1] + rank, t[2]>>

\* Client._calculate_hand_value
calculate_hand_value(hand) ==
    LET t == RankTally(hand) IN AdjustAces(t[1], t[2])

\* The ranks of a hand, as the client keeps them.
RanksOf(hand) == [i \in 1..Len(hand) |-> hand[i][1]]

\* The hands scored: every sequence of up to MaxHandLen ranks.  The score
\* reads no suit (line 88 binds it and never uses it), so one suit is held.
ScoreHands ==
    UNION { [1..n -> { <<rank, 0>> : rank \in Ranks }] : n \in 1..MaxHandLen }

ScoreInit ==
    /\ pc = "AwaitRequest"
    /\ rounds = 0
    /\ round_num = 0
    /\ deck = {}
    /\ player_hand = <<>>
    /\ dealer_hand = <<>>
    /\ wire = <<>>
    /\ ret = "none"
    /\ game_deck = <<>>
    /\ drawn = <<>>
    /\ draws = 0
    /\ call \in { [fn |-> "hand", hand |-> h, score |-> 0] : h \in ScoreHands }
    /\ handshake = "pending"
    /\ seeker = [pc |-> "idle"]
    /\ udp = [pc |-> "idle"]
    /\ conns = <<>>
    /\ acceptor = [pc |-> "idle"]
    /\ tally = [phase |-> "idle"]
    /\ table = [pc |-> "idle"]

\* game.calculate_score(hand)
GameScore ==
    /\ call.fn = "hand"
    /\ call' = [fn |-> "calculate_score", hand |-> call.hand,
                score |-> calculate_score(call.hand)]
    /\ UNCHANGED <<session, game_deck, drawn, draws, others>>

\* client._calculate_hand_value(hand), on the ranks of the same cards
ClientScore ==
    /\ call.fn = "hand"
    /\ call' = [fn |-> "_calculate_hand_value", hand |-> call.hand,
                score |-> calculate_hand_value(RanksOf(call.hand))]
    /\ UNCHANGED <<session, game_deck, drawn, draws, others>>

ScoreNext ==
    \/ GameScore
    \/ ClientScore

ScoreSpec == ScoreInit /\ [][ScoreNext]_vars

\* The hand was scored, by the engine or by the client.
Scored == call.fn \in {"calculate_score", "_calculate_hand_value"}

\* The totals a hand reaches when each Ace is valued 11 or 1.
RECURSIVE SumOver(_, _, _)
SumOver(hand, value, i) ==
    IF i = 0 THEN 0
    ELSE SumOver(hand, value, i - 1)
         + (IF hand[i][1] = 1 THEN value[i]
            ELSE IF hand[i][1] >= 10 THEN 10 ELSE hand[i][1])

Totals(hand) ==
    { SumOver(hand, value, Len(hand)) : value \in [1..Len(hand) -> {1, 11}] }

Max(S) == CHOOSE m \in S : \A n \in S : n <= m

\* Soft/hard scoring: the best total not above 21, else every Ace as 1.
SoftHard(hand) ==
    IF \E t \in Totals(hand) : t <= 21
    THEN Max({ t \in Totals(hand) : t <= 21 })
    ELSE SumOver(hand, [i \in 1..Len(hand) |-> 1], Len(hand))

\* C11: the score of a hand, as the engine and as the client compute it, is
\* the largest total not above 21 that valuing each Ace 11 or 1 can reach,
\* and the total with every Ace as 1 when there is none; [Ace, Ace, 9]
\* scores 21 and [Ace, Ace, Ace, 9] scores 12.
C11_SoftHardScore ==
    /\ Scored => call.score = SoftHard(call.hand)
    /\ Scored /\ RanksOf(call.hand) = <<1, 1, 9>> => call.score = 21
    /\ Scored /\ RanksOf(call.hand) = <<1, 1, 1, 9>> => call.score = 12

\* C11 witness: three Aces and a 9 were scored, two Aces adjusted twice over.
C11_Witness ==
    /\ call.fn = "calculate_score"
    /\ RanksOf(call.hand) = <<1, 1, 1, 9>>
    /\ call.score = 12

Swap(hand, i) ==
    [k \in 1..Len(hand) |-> IF k = i THEN hand[i + 1]
                            ELSE IF k = i + 1 THEN hand[i] ELSE hand[k]]

\* C13: the engine's score of a hand does not change when two neighbouring
\* cards trade places (every reordering is a chain of such trades, and every
\* hand on the chain is among the hands scored), and it never exceeds the sum
\* that counts every Ace as 11.
C13_OrderFreeAndBounded ==
    call.fn = "calculate_score" =>
        /\ \A i \in 1..(Len(call.hand) - 1) :
               calculate_score(Swap(call.hand, i)) = call.score
        /\ call.score <= Tally(call.hand)[1]

\* C13 witness: a hand with an Ace behind a 9 and a 5 was scored below the
\* all-Aces-as-11 sum.
C13_Witness ==
    /\ call.fn = "calculate_score"
    /\ RanksOf(call.hand) = <<9, 5, 1>>
    /\ call.score = 15
    /\ call.score < Tally(call.hand)[1]

\* C12: in a round, the score the host computes for the player's and for the
\* dealer's hand equals the engine's flexible-Ace score of the same cards.
C12_HostScoreIsFlexible ==
    /\ Server_calculate_score(player_hand) = calculate_score(player_hand)
    /\ Server_calculate_score(dealer_hand) = calculate_score(dealer_hand)

----------------------------------------------------------------------------
(* The deck engine: BlackjackGame._create_deck and BlackjackGame._draw_card *)

MaxShuffles == 3
MaxDraws == 56

RESHUFFLE_THRESHOLD == 5

\* [(rank, suit) for suit in range(4) for rank in range(1, n + 1)]
Comprehension(n) ==
    [k \in 1..(4 * n) |-> <<((k - 1) % n) + 1, (k - 1) \div n>>]

\* A plausible slip: range(1, 13) leaves the Kings out.
deck_list_short == Comprehension(12)

\* The list of line 27, before it is shuffled.
deck_list == Comprehension(13)

\* random.shuffle puts the list in some order; the orders explored are the
\* rotations by 17 * seed places, read backwards when the seed is odd.
ShuffleSeeds == 1..MaxShuffles

Shuffle(list, seed) ==
    LET n == Len(list) IN
    [k \in 1..n |->
        LET j == (k - 1 + 17 * seed) % n IN
        list[IF seed % 2 = 1 THEN n - j ELSE j + 1]]

\* BlackjackGame._create_deck
BlackjackGame_create_deck(seed) == Shuffle(deck_list, seed)

\* A plausible slip: "<=" in place of "<".
needs_regeneration_inclusive(d) == Len(d) <= RESHUFFLE_THRESHOLD

\* A plausible slip: the deck is never regenerated.
needs_regeneration_never(d) == FALSE

\* len(self.deck) < self.RESHUFFLE_THRESHOLD
needs_regeneration(d) == Len(d) < RESHUFFLE_THRESHOLD

\* BlackjackGame.__init__
DeckInit ==
    /\ pc = "AwaitRequest"
    /\ rounds = 0
    /\ round_num = 0
    /\ deck = {}
    /\ player_hand = <<>>
    /\ dealer_hand = <<>>
    /\ wire = <<>>
    /\ ret = "none"
    /\ game_deck \in { BlackjackGame_create_deck(seed) : seed \in ShuffleSeeds }
    /\ drawn = <<>>
    /\ draws = 0
    /\ call = [fn |-> "__init__"]
    /\ handshake = "pending"
    /\ seeker = [pc |-> "idle"]
    /\ udp = [pc |-> "idle"]
    /\ conns = <<>>
    /\ acceptor = [pc |-> "idle"]
    /\ tally = [phase |-> "idle"]
    /\ table = [pc |-> "idle"]

\* BlackjackGame._draw_card.  list.pop() on an empty list raises IndexError.
draw_card ==
    /\ draws < MaxDraws
    /\ draws' = draws + 1
    /\ \E seed \in ShuffleSeeds :
        LET regenerate == needs_regeneration(game_deck)
            current == IF regenerate THEN BlackjackGame_create_deck(seed)
                       ELSE game_deck
        IN  IF current = <<>>
            THEN /\ call' = [fn |-> "_draw_card", err |-> "IndexError",
                             before |-> Len(game_deck),
                             regenerated |-> regenerate, card |-> <<0, 0>>]
                 /\ game_deck' = current
                 /\ UNCHANGED drawn
            ELSE /\ call' = [fn |-> "_draw_card", err |-> "none",
                             before |-> Len(game_deck),
                             regenerated |-> regenerate,
                             card |-> current[Len(current)]]
                 /\ game_deck' = SubSeq(current, 1, Len(current) - 1)
                 /\ drawn' = (IF regenerate THEN <<>> ELSE drawn)
                                 \o <<current[Len(current)]>>
    /\ UNCHANGED <<session, others>>

DeckNext == draw_card

DeckSpec == DeckInit /\ [][DeckNext]_vars

\* How many times a card occurs in a list.
Occurrences(card, list) ==
    Cardinality({ k \in 1..Len(list) : list[k] = card })

\* C14: the deck as it was generated (what is left of it followed by what was
\* drawn from it) holds every (rank, suit) pair with rank 1..13 and suit 0..3
\* exactly once, 52 cards in all; the cards drawn from it since are pairwise
\* distinct; the host's create_deck holds the same 52 cards.
C14_FullDeckDistinctDraws ==
    /\ Len(game_deck) + Len(drawn) = 52
    /\ \A rank \in Ranks, suit \in Suits :
           Occurrences(<<rank, suit>>, game_deck \o drawn) = 1
    /\ \A i, j \in 1..Len(drawn) : i # j => drawn[i] # drawn[j]
    /\ Cardinality(create_deck) = 52
    /\ create_deck = { deck_list[k] : k \in 1..Len(deck_list) }

\* C14 witness: 48 cards were drawn from one deck, none regenerated yet.
C14_Witness ==
    /\ Len(drawn) = 48
    /\ draws = 48
    /\ Len(game_deck) = 4

\* C15 (as stated): after any sequence of draws the remaining count is never
\* below 5.
C15_NeverBelowFive == Len(game_deck) >= 5

\* C15 (amended): a draw returns the last card of the current deck and removes
\* it; the deck is regenerated first, as a full 52-card deck, exactly when it
\* holds fewer than 5 cards at the time of the draw, so that the remaining
\* count is never below 4.
C15_DrawAndRegenerate ==
    /\ [](Len(game_deck) >= 4)
    /\ [][draws' = draws + 1 =>
            /\ call'.err = "none"
            /\ call'.regenerated <=> (Len(game_deck) < 5)
            /\ IF Len(game_deck) < 5
               THEN /\ Len(game_deck') = 51
                    /\ \A rank \in Ranks, suit \in Suits :
                         Occurrences(<<rank, suit>>,
                                     game_deck' \o <<call'.card>>) = 1
               ELSE game_deck = game_deck' \o <<call'.card>>]_vars

\* C15 witness: a draw found 4 cards, regenerated and left 51.
C15_Witness ==
    /\ call.fn = "_draw_card"
    /\ call.before = 4
    /\ call.regenerated
    /\ Len(game_deck) = 51

\* C16: every draw from a fresh deck on, the 49th and later ones included,
\* returns a card: a draw that finds fewer than 5 cards regenerates the deck
\* first, and no draw pops an empty deck.
C16_DrawsNeverFail ==
    call.fn = "_draw_card" =>
        /\ call.err = "none"
        /\ call.before < 5 => call.regenerated
        /\ call.regenerated \/ call.before > 0

\* C16 witness: more than 48 draws were made, the last ones from a second deck.
C16_Witness ==
    /\ draws = MaxDraws
    /\ draws > 48
    /\ call.err = "none"
    /\ Len(drawn) = draws - 48

----------------------------------------------------------------------------
(* The codecs, called on their own: BlackjackServerProtocol and
   BlackjackClientProtocol *)

\* BlackjackClientProtocol.MAGIC_COOKIE and MSG_PAYLOAD
Client_MAGIC_COOKIE == <<171, 205, 220, 186>>
Client_MSG_PAYLOAD == 4

\* A plausible slip: the rank is read as one byte ('!I B B B B').
unpack_payload_server_byte_rank(data) ==
    IF Len(data) < 9 THEN Raise("Server Payload packet too short")
    ELSE IF SubSeq(data, 1, 4) # Client_MAGIC_COOKIE
    THEN Raise("Invalid Magic Cookie")
    ELSE IF data[5] # Client_MSG_PAYLOAD
    THEN Raise("Invalid Message Type (Expected Payload)")
    ELSE [err |-> "none", result_code |-> data[6], card_rank |-> data[7],
          card_suit |-> data[8]]

\* BlackjackClientProtocol.unpack_payload_server
unpack_payload_server(data) ==
    IF Len(data) < 9 THEN Raise("Server Payload packet too short")
    ELSE LET cookie == SubSeq(data, 1, 4)
             msg_type == data[5]
             code == data[6]
             card_rank == data[7] * 256 + data[8]
             card_suit == data[9]
         IN  IF cookie # Client_MAGIC_COOKIE THEN Raise("Invalid Magic Cookie")
             ELSE IF msg_type # Client_MSG_PAYLOAD
             THEN Raise("Invalid Message Type (Expected Payload)")
             ELSE [err |-> "none", result_code |-> code,
                   card_rank |-> card_rank, card_suit |-> card_suit]

\* str.strip(): leading and trailing whitespace goes.
Whitespace == {9, 10, 11, 12, 13, 28, 29, 30, 31, 32}

RECURSIVE LStripWs(_)
LStripWs(str) ==
    IF str # <<>> /\ Head(str) \in Whitespace THEN LStripWs(Tail(str)) ELSE str

RECURSIVE RStripWs(_)
RStripWs(str) ==
    IF str # <<>> /\ str[Len(str)] \in Whitespace
    THEN RStripWs(SubSeq(str, 1, Len(str) - 1))
    ELSE str

StripWs(str) == RStripWs(LStripWs(str))

\* str.title(): a letter is upper case after a character that is no letter
\* and lower case after a letter.
IsUpper(c) == c \in 65..90
IsLower(c) == c \in 97..122
IsLetter(c) == IsUpper(c) \/ IsLower(c)

Title(str) ==
    [i \in 1..Len(str) |->
        IF ~IsLetter(str[i]) THEN str[i]
        ELSE IF i = 1 \/ ~IsLetter(str[i - 1])
        THEN (IF IsLower(str[i]) THEN str[i] - 32 ELSE str[i])
        ELSE (IF IsUpper(str[i]) THEN str[i] + 32 ELSE str[i])]

\* A plausible slip: "Hit" is sent as itself, padded by '5s' with NULs.
protocol_string_padded(normalized_decision) ==
    IF normalized_decision = Hit THEN Hit ELSE Stand

\* decision_map = { "Hit": "Hittt", "Stand": "Stand" }
protocol_string(normalized_decision) ==
    IF normalized_decision = Hit THEN Hittt ELSE Stand

\* BlackjackClientProtocol.pack_player_decision
pack_player_decision(decision) ==
    LET normalized_decision == Title(StripWs(decision)) IN
    IF normalized_decision \notin {Hit, Stand} THEN Raise("Invalid input")
    ELSE [err |-> "none",
          bytes |-> ClientPayloadBytes(
                        Client_MAGIC_COOKIE, Client_MSG_PAYLOAD,
                        LJust(Utf8Encode(protocol_string(normalized_decision)),
                              5))]

\* What the user may type: "Hit", "Stand", "hit", "STAND", " hit ",
\* "sTaNd\n", "Hittt", "h", "", "hit me", "Stan", "Hit\0", "hi t", "stand!"
UserInputs ==
    { Hit, Stand,
      <<104, 105, 116>>,
      <<83, 84, 65, 78, 68>>,
      <<32, 104, 105, 116, 32>>,
      <<115, 84, 97, 78, 100, 10>>,
      Hittt,
      <<104>>,
      <<>>,
      <<104, 105, 116, 32, 109, 101>>,
      <<83, 116, 97, 110>>,
      <<72, 105, 116, NUL>>,
      <<104, 105, 32, 116>>,
      <<115, 116, 97, 110, 100, 33>> }

\* Team-name fields of a Request: the padded name, 32 NULs, 32 letters, a
\* name with an e-acute in it, a name whose 32nd byte is the first half of an
\* e-acute (what [:32] leaves of 31 letters and an e-acute), and a byte that
\* is no UTF-8.
NameFields ==
    { TeamNameField,
      LJust(<<>>, 32),
      [i \in 1..32 |-> 65],
      LJust(<<67, 97, 102, 195, 169>>, 32),
      [i \in 1..32 |-> IF i = 32 THEN 195 ELSE 65],
      LJust(<<255>>, 32) }

\* The byte strings handed to unpack_request: well-formed Requests of every
\* name field, wrong cookies and types, cut and overlong ones.
CodecRequestInputs ==
    LET shaped ==
            { RequestBytes(c, t, r, n) :
                c \in {MAGIC_COOKIE, BadCookie},
                t \in {MSG_OFFER, MSG_REQUEST, MSG_PAYLOAD},
                r \in {0, 1, 255}, n \in NameFields }
    IN  shaped
        \cup { SubSeq(d, 1, k) : d \in shaped, k \in {0, 4, 37} }
        \cup { d \o <<7>> : d \in shaped }

\* The byte strings handed to unpack_player_decision.
CodecDecisionInputs ==
    LET shaped ==
            { ClientPayloadBytes(c, t, d) :
                c \in {MAGIC_COOKIE, BadCookie},
                t \in {MSG_OFFER, MSG_REQUEST, MSG_PAYLOAD},
                d \in DecisionFields }
    IN  shaped
        \cup { SubSeq(d, 1, k) : d \in shaped, k \in {0, 5, 9} }
        \cup { d \o <<7>> : d \in shaped }

CodecInit ==
    /\ pc = "AwaitRequest"
    /\ rounds = 0
    /\ round_num = 0
    /\ deck = {}
    /\ player_hand = <<>>
    /\ dealer_hand = <<>>
    /\ wire = <<>>
    /\ ret = "none"
    /\ game_deck = <<>>
    /\ drawn = <<>>
    /\ draws = 0
    /\ call = [fn |-> "none"]
    /\ handshake = "pending"
    /\ seeker = [pc |-> "idle"]
    /\ udp = [pc |-> "idle"]
    /\ conns = <<>>
    /\ acceptor = [pc |-> "idle"]
    /\ tally = [phase |-> "idle"]
    /\ table = [pc |-> "idle"]

\* BlackjackServerProtocol.unpack_request(data)
DecodeRequest ==
    /\ call.fn = "none"
    /\ \E data \in CodecRequestInputs :
        call' = [fn |-> "unpack_request", data |-> data,
                 result |-> unpack_request(data)]
    /\ UNCHANGED <<session, game_deck, drawn, draws, others>>

\* BlackjackServerProtocol.unpack_player_decision(data)
DecodeDecision ==
    /\ call.fn = "none"
    /\ \E data \in CodecDecisionInputs :
        call' = [fn |-> "unpack_player_decision", data |-> data,
                 result |-> unpack_player_decision(data)]
    /\ UNCHANGED <<session, game_deck, drawn, draws, others>>

\* The host packs a ServerPayload: a card with any result code, or no card.
HostPackPayload ==
    /\ call.fn = "none"
    /\ \E code \in 0..3, card \in create_deck \cup {<<0, 0>>} :
        call' = [fn |-> "pack_payload_server", code |-> code, card |-> card,
                 bytes |-> pack_payload_server(code, card[1], card[2]).bytes]
    /\ UNCHANGED <<session, game_deck, drawn, draws, others>>

\* The client unpacks the ServerPayload the host packed.
ClientUnpackPayload ==
    /\ call.fn = "pack_payload_server"
    /\ call' = [fn |-> "unpack_payload_server",
                code |-> call.code, card |-> call.card,
                bytes |-> call.bytes,
                result |-> unpack_payload_server(call.bytes)]
    /\ UNCHANGED <<session, game_deck, drawn, draws, others>>

\* Client.get_valid_user_decision and lines 241-244 of Client.play_round: an
\* input pack_player_decision rejects is asked for again and nothing is
\* sent; the normalised decision is packed and sent.
ClientDecision ==
    /\ call.fn = "none"
    /\ \E user_input \in UserInputs :
        IF pack_player_decision(user_input).err # "none"
        THEN call' = [fn |-> "get_valid_user_decision",
                      user_input |-> user_input, err |-> "ValueError",
                      sent |-> <<>>]
        ELSE LET decision == Title(StripWs(user_input)) IN
             call' = [fn |-> "pack_player_decision",
                      user_input |-> user_input, decision |-> decision,
                      err |-> pack_player_decision(decision).err,
                      sent |-> <<pack_player_decision(decision).bytes>>]
    /\ UNCHANGED <<session, game_deck, drawn, draws, others>>

\* The host unpacks the ClientPayload the client sent.
HostUnpackDecision ==
    /\ call.fn = "pack_player_decision"
    /\ call.sent # <<>>
    /\ call' = [fn |-> "round_trip_decision", user_input |-> call.user_input,
                decision |-> call.decision, data |-> call.sent[1],
                result |-> unpack_player_decision(call.sent[1])]
    /\ UNCHANGED <<session, game_deck, drawn, draws, others>>

\* BlackjackClientProtocol.MSG_REQUEST
Client_MSG_REQUEST == 3

\* A plausible slip: the name is padded with spaces.
name_field_space_padded(team_name) ==
    LET encoded == Utf8Encode(team_name)
        cut == SubSeq(encoded, 1, IF Len(encoded) < 32 THEN Len(encoded) ELSE 32)
    IN  cut \o [i \in 1..(32 - Len(cut)) |-> 32]

\* team_name.encode('utf-8')[:32].ljust(32, b'\x00')
name_field(team_name) ==
    LET encoded == Utf8Encode(team_name)
        cut == SubSeq(encoded, 1, IF Len(encoded) < 32 THEN Len(encoded) ELSE 32)
    IN  LJust(cut, 32)

\* BlackjackClientProtocol.pack_request.  Format B takes 0..255 and raises
\* struct.error for any other number.
pack_request(r, team_name) ==
    IF r \notin 0..255 THEN Raise("struct.error")
    ELSE [err |-> "none",
          bytes |-> RequestBytes(Client_MAGIC_COOKIE, Client_MSG_REQUEST, r,
                                 name_field(team_name))]

\* Team names: "", "A", "TheHighRollers", 32 letters, "Café", 16 times "é"
\* (32 bytes), 31 letters and an "é" (33 bytes), 33 letters, and names with a
\* NUL inside, behind and in front.
TeamNames ==
    { <<>>,
      <<65>>,
      <<84, 104, 101, 72, 105, 103, 104, 82, 111, 108, 108, 101, 114, 115>>,
      [i \in 1..32 |-> 65],
      <<67, 97, 102, 233>>,
      [i \in 1..16 |-> 233],
      [i \in 1..32 |-> IF i = 32 THEN 233 ELSE 65],
      [i \in 1..33 |-> 65],
      <<65, NUL, 66>>,
      <<65, 66, NUL>>,
      <<NUL, 65, 66>> }

\* The round counts the client may ask for, and one that does not fit a byte.
RoundCounts == 0..256

\* The client packs a Request.
ClientPackRequest ==
    /\ call.fn = "none"
    /\ \E r \in RoundCounts, team_name \in TeamNames :
        call' = [fn |-> "pack_request", rounds |-> r, team_name |-> team_name,
                 packed |-> pack_request(r, team_name)]
    /\ UNCHANGED <<session, game_deck, drawn, draws, others>>

\* The host unpacks the Request the client packed.
HostUnpackRequest ==
    /\ call.fn = "pack_request"
    /\ call.packed.err = "none"
    /\ call' = [fn |-> "round_trip_request", rounds |-> call.rounds,
                team_name |-> call.team_name, data |-> call.packed.bytes,
                result |-> unpack_request(call.packed.bytes)]
    /\ UNCHANGED <<session, game_deck, drawn, draws, others>>

CodecNext ==
    \/ DecodeRequest
    \/ DecodeDecision
    \/ HostPackPayload
    \/ ClientUnpackPayload
    \/ ClientDecision
    \/ HostUnpackDecision
    \/ ClientPackRequest
    \/ HostUnpackRequest

CodecSpec == CodecInit /\ [][CodecNext]_vars

\* The header of a byte string is that of a message of the given type.
HeaderIs(data, n, msg_type) ==
    /\ Len(data) >= n
    /\ SubSeq(data, 1, 4) = MAGIC_COOKIE
    /\ data[5] = msg_type

\* C17: decoding a Request fails on fewer than 38 bytes, else on a wrong
\* magic cookie, else on a type tag other than 0x3, each with an error of its
\* own, and a Request of correct length, magic and type always decodes.
C17_RequestDecoding ==
    call.fn = "unpack_request" =>
        /\ Len(call.data) < 38 =>
               call.result.err = "Request packet too short"
        /\ Len(call.data) >= 38 /\ SubSeq(call.data, 1, 4) # MAGIC_COOKIE =>
               call.result.err = "Invalid Magic Cookie"
        /\ /\ Len(call.data) >= 38
           /\ SubSeq(call.data, 1, 4) = MAGIC_COOKIE
           /\ call.data[5] # MSG_REQUEST
           => call.result.err = "Invalid Message Type (Expected Request)"
        /\ HeaderIs(call.data, 38, MSG_REQUEST) => call.result.err = "none"

\* C18: a ClientPayload with the magic cookie and the payload type decodes to
\* Hit exactly when its 5-byte field is "Hittt" and to Stand exactly when it is
\* "Stand"; every other field is rejected with an error, so the decoder hands
\* the round nothing but Hit or Stand.
C18_StrictDecision ==
    call.fn = "unpack_player_decision" =>
        /\ call.result.err = "none" => call.result.decision \in {Hit, Stand}
        /\ HeaderIs(call.data, 10, MSG_PAYLOAD) =>
            LET field == SubSeq(call.data, 6, 10) IN
            /\ (call.result.err = "none" /\ call.result.decision = Hit)
                   <=> field = Hittt
            /\ (call.result.err = "none" /\ call.result.decision = Stand)
                   <=> field = Stand
            /\ field \notin {Hittt, Stand} => call.result.err # "none"

\* C18 witness: "Hit" padded with NULs came with a good header and was
\* rejected.
C18_Witness ==
    /\ call.fn = "unpack_player_decision"
    /\ HeaderIs(call.data, 10, MSG_PAYLOAD)
    /\ SubSeq(call.data, 6, 10) = <<72, 105, 116, NUL, NUL>>
    /\ call.result.err = "Protocol Violation"

\* C19: what the host packs from a result code 0..3 and a card, or the zero
\* card, is 9 bytes, and the client unpacks it to the same result code, rank
\* and suit.
C19_PayloadRoundTrip ==
    /\ call.fn \in {"pack_payload_server", "unpack_payload_server"} =>
           Len(call.bytes) = 9
    /\ call.fn = "unpack_payload_server" =>
           /\ call.result.err = "none"
           /\ call.result.result_code = call.code
           /\ call.result.card_rank = call.card[1]
           /\ call.result.card_suit = call.card[2]

\* C19 witness: the King of suit 3 went round with result code 3.
C19_Witness ==
    /\ call.fn = "unpack_payload_server"
    /\ call.code = 3
    /\ call.card = <<13, 3>>
    /\ call.result.card_rank = 13
    /\ call.result.card_suit = 3

\* C20: the client packs Hit as a 10-byte ClientPayload with the field
\* "Hittt" and Stand as one with the field "Stand"; the host unpacks what the
\* client packed to the same decision; an input that does not normalise to
\* Hit or Stand makes pack_player_decision raise, and nothing is sent.
C20_DecisionRoundTrip ==
    /\ call.fn = "pack_player_decision" =>
           /\ call.err = "none"
           /\ call.decision \in {Hit, Stand}
           /\ Len(call.sent) = 1
           /\ Len(call.sent[1]) = 10
           /\ call.decision = Hit => SubSeq(call.sent[1], 6, 10) = Hittt
           /\ call.decision = Stand => SubSeq(call.sent[1], 6, 10) = Stand
    /\ call.fn = "round_trip_decision" =>
           /\ call.result.err = "none"
           /\ call.result.decision = call.decision
    /\ call.fn = "get_valid_user_decision" => call.sent = <<>>
    /\ call.fn \in {"pack_player_decision", "get_valid_user_decision"} =>
           (call.fn = "get_valid_user_decision"
               <=> Title(StripWs(call.user_input)) \notin {Hit, Stand})

\* C20 witness: " hit " was typed, packed, sent and unpacked as Hit.
C20_Witness ==
    /\ call.fn = "round_trip_decision"
    /\ call.user_input = <<32, 104, 105, 116, 32>>
    /\ SubSeq(call.data, 6, 10) = Hittt
    /\ call.result.decision = Hit

\* C21: for a round count 0..255 and a team name whose encoding is at most 32
\* bytes and has no NUL, the client packs a 38-byte Request and the host
\* unpacks from it the same round count, which is the count of its round loop,
\* and the same name.
C21_RequestRoundTrip ==
    /\ call.fn = "pack_request" /\ call.rounds \in 0..255 =>
           call.packed.err = "none" /\ Len(call.packed.bytes) = 38
    /\ /\ call.fn = "round_trip_request"
       /\ Len(Utf8Encode(call.team_name)) <= 32
       /\ \A i \in 1..Len(call.team_name) : call.team_name[i] # NUL
       => /\ Len(call.data) = 38
          /\ call.result.err = "none"
          /\ call.result.rounds = call.rounds
          /\ call.result.team_name = call.team_name

\* C21 witness: 255 rounds and a name of 16 times "é", 32 bytes, went round.
C21_Witness ==
    /\ call.fn = "round_trip_request"
    /\ call.rounds = 255
    /\ call.team_name = [i \in 1..16 |-> 233]
    /\ call.result.err = "none"
    /\ call.result.team_name = call.team_name

----------------------------------------------------------------------------
(* The session as a whole *)

\* The session thread is scheduled until it ends: every recv and sendall
\* returns or raises within CLIENT_TIMEOUT.
LiveSpec == Spec /\ WF_vars(Next)

HandshakeFailed == handshake \in {"Timeout", "Disconnect", "ValueError"}

\* The read of a decision failed in this round: nothing came in time, or the
\* peer went away.
HasFailedRead == HasRead("Timeout") \/ HasRead("Disconnect")

\* C22: when the Request is not read (timeout, disconnect) or does not decode,
\* the connection is closed at once: the Request is not read again, nothing is
\* sent and no round is started.
C22_HandshakeFailure ==
    HandshakeFailed =>
        /\ pc = "Closed"
        /\ wire = <<>>
        /\ round_num = 0
        /\ ret = "none"
        /\ deck = {} /\ player_hand = <<>> /\ dealer_hand = <<>>

\* C22 witness: a Request that did not decode closed the connection.
C22_Witness ==
    /\ handshake = "ValueError"
    /\ pc = "Closed"
    /\ wire = <<>>
    /\ round_num = 0

\* C23: after a handshake asking for N rounds the rounds run in the order
\* 1..N; round i+1 starts exactly when round i returned without a fatal error
\* and i < N; a round that sent its outcome (win, loss, tie, either bust)
\* returned without one; no more than N rounds are started.
C23_RoundLoop ==
    /\ [](round_num <= rounds)
    /\ [](pc = "RoundDone" =>
            (ret = "True" <=> (wire # <<>> /\ IsOutcome(wire[Len(wire)]))))
    /\ [][pc = "AwaitRequest" /\ handshake' = "ok" =>
            IF rounds' >= 1 THEN pc' = "RoundStart" /\ round_num' = 1
            ELSE pc' = "Closed" /\ round_num' = 0]_vars
    /\ [][pc = "RoundDone" =>
            IF ret = "True" /\ round_num < rounds
            THEN pc' = "RoundStart" /\ round_num' = round_num + 1
            ELSE pc' = "Closed" /\ round_num' = round_num]_vars
    /\ [][round_num' # round_num => round_num' = round_num + 1]_vars

\* C23 witness: the second of two rounds ended with its outcome sent.
C23_Witness ==
    /\ pc = "RoundDone"
    /\ rounds = 2
    /\ round_num = 2
    /\ ret = "True"
    /\ IsOutcome(wire[Len(wire)])

\* C24: every session ends with the connection closed, whichever way it goes;
\* the connection is closed by one step, and no step follows it: nothing is
\* sent or read on the closed connection and it is not closed again.
C24_EventuallyClosed ==
    /\ <>(pc = "Closed")
    /\ [][pc # "Closed"]_vars

\* C24 witness: the connection was closed after both rounds were played.
C24_Witness ==
    /\ pc = "Closed"
    /\ handshake = "ok"
    /\ rounds = 2
    /\ round_num = 2

\* C25: a decision that does not decode (wrong cookie, wrong type, a field
\* that is neither "Hittt" nor "Stand") ends the session at once: it is the
\* last thing read or written in the round, the round returns failure, and
\* the next step closes the connection without another round.
C25_StrictValidation ==
    /\ [](HasInvalidRead =>
            /\ pc = "RoundDone"
            /\ ret = "False"
            /\ wire[Len(wire)] = Read("ValueError")
            /\ \A i \in 1..(Len(wire) - 1) : wire[i] # Read("ValueError"))
    /\ [][HasInvalidRead => pc' = "Closed" /\ round_num' = round_num]_vars

\* C25 witness: after a Hit was answered, a decision did not decode in the
\* first of two rounds.
C25_Witness ==
    /\ HasInvalidRead
    /\ HasRead("Hit")
    /\ rounds = 2
    /\ round_num = 1
    /\ pc = "RoundDone"

\* C26: when no decision arrives in time, or the peer closes the connection,
\* the round ends as a failure with no outcome sent, no further round is
\* started and the connection is closed.
C26_ReceiveFailure ==
    /\ [](HasFailedRead =>
            /\ pc = "RoundDone"
            /\ ret = "False"
            /\ wire[Len(wire)] \in {Read("Timeout"), Read("Disconnect")}
            /\ \A i \in DOMAIN wire : ~IsOutcome(wire[i]))
    /\ [][HasFailedRead => pc' = "Closed" /\ round_num' = round_num]_vars

\* C26 witness: the read of a decision timed out in the first of two rounds.
C26_Witness ==
    /\ HasRead("Timeout")
    /\ rounds = 2
    /\ round_num = 1
    /\ pc = "RoundDone"
    /\ ret = "False"

\* The cards of a hand.
CardsOf(hand) == { hand[i] : i \in DOMAIN hand }

\* C30: a round starts with no deck and no hands left from the round before;
\* its deal takes four cards from a full 52-card deck, and throughout the
\* round the deck and the two hands together are that deck, each card once.
C30_FreshRound ==
    /\ [](pc = "RoundStart" =>
            deck = {} /\ player_hand = <<>> /\ dealer_hand = <<>>
                /\ wire = <<>>)
    /\ [](pc \in {"PlayerTurn", "DealerReveal", "DealerLoop", "Resolve"} =>
            /\ deck \cup CardsOf(player_hand) \cup CardsOf(dealer_hand)
                   = create_deck
            /\ Cardinality(deck) + Len(player_hand) + Len(dealer_hand) = 52)
    /\ [][pc = "RoundStart" =>
            /\ Len(player_hand') = 2 /\ Len(dealer_hand') = 2
            /\ Cardinality(deck') = 48
            /\ deck' \cup CardsOf(player_hand') \cup CardsOf(dealer_hand')
                   = create_deck]_vars

\* C30 witness: the second round was dealt from a full deck.
C30_Witness ==
    /\ round_num = 2
    /\ pc = "PlayerTurn"
    /\ Cardinality(deck) = 48
    /\ Len(player_hand) = 2

----------------------------------------------------------------------------
(* Discovery, player side: Client.find_server *)

MaxDatagrams == 3

\* BlackjackClientProtocol.MSG_OFFER
Client_MSG_OFFER == 2

\* struct.pack('!I B H 32s', cookie, msg_type, server_port, name_bytes)
OfferBytes(cookie, msg_type, server_port, name_bytes) ==
    cookie \o <<msg_type>> \o U16(server_port) \o name_bytes

\* "CasinoRoyaleServer"
SERVER_NAME ==
    <<67, 97, 115, 105, 110, 111, 82, 111, 121, 97, 108, 101, 83, 101, 114,
      118, 101, 114>>

\* BlackjackServerProtocol.pack_offer
pack_offer(server_port, server_name) ==
    LET encoded == Utf8Encode(server_name)
        cut == SubSeq(encoded, 1, IF Len(encoded) < 32 THEN Len(encoded) ELSE 32)
    IN  OfferBytes(MAGIC_COOKIE, MSG_OFFER, server_port, LJust(cut, 32))

\* A plausible slip: the type tag is not checked.
unpack_offer_any_type(data) ==
    IF Len(data) < 39 THEN Raise("Offer packet too short")
    ELSE IF SubSeq(data, 1, 4) # Client_MAGIC_COOKIE
    THEN Raise("Invalid Magic Cookie")
    ELSE LET dec == Utf8Decode(SubSeq(data, 8, 39)) IN
         IF dec.err # "none" THEN Raise("UnicodeDecodeError")
         ELSE [err |-> "none", server_port |-> data[6] * 256 + data[7],
               server_name |-> Strip(dec.str)]

\* BlackjackClientProtocol.unpack_offer
unpack_offer(data) ==
    IF Len(data) < 39 THEN Raise("Offer packet too short")
    ELSE LET cookie == SubSeq(data, 1, 4)
             msg_type == data[5]
             server_port == data[6] * 256 + data[7]
             name_bytes == SubSeq(data, 8, 39)
         IN  IF cookie # Client_MAGIC_COOKIE THEN Raise("Invalid Magic Cookie")
             ELSE IF msg_type # Client_MSG_OFFER
             THEN Raise("Invalid Message Type (Expected Offer)")
             ELSE LET dec == Utf8Decode(name_bytes) IN
                  IF dec.err # "none" THEN Raise("UnicodeDecodeError")
                  ELSE [err |-> "none", server_port |-> server_port,
                        server_name |-> Strip(dec.str)]

\* What recvfrom may return: Offers of two hosts, one of them with a byte
\* behind it; an Offer cut to 38 bytes, an empty datagram, a wrong cookie, a
\* Request-typed and a Payload-typed datagram of Offer length, and an Offer
\* whose name is no UTF-8.
Datagrams ==
    LET offer_a == pack_offer(5000, SERVER_NAME)
        offer_b == pack_offer(65535, SERVER_NAME)
    IN  { [addr |-> "10.0.0.1", data |-> offer_a],
          [addr |-> "10.0.0.2", data |-> offer_b],
          [addr |-> "10.0.0.2", data |-> offer_a \o <<7>>],
          [addr |-> "10.0.0.3", data |-> SubSeq(offer_a, 1, 38)],
          [addr |-> "10.0.0.3", data |-> <<>>],
          [addr |-> "10.0.0.4",
           data |-> OfferBytes(BadCookie, MSG_OFFER, 6000, LJust(<<>>, 32))],
          [addr |-> "10.0.0.5",
           data |-> OfferBytes(MAGIC_COOKIE, MSG_REQUEST, 6001,
                               LJust(<<>>, 32))],
          [addr |-> "10.0.0.6",
           data |-> OfferBytes(MAGIC_COOKIE, MSG_PAYLOAD, 6002,
                               LJust(<<>>, 32))],
          [addr |-> "10.0.0.7",
           data |-> OfferBytes(MAGIC_COOKIE, MSG_OFFER, 6003,
                               LJust(<<255>>, 32))] }

\* find_server has bound its socket and enters the loop.
SeekerInit ==
    /\ pc = "AwaitRequest"
    /\ rounds = 0
    /\ round_num = 0
    /\ deck = {}
    /\ player_hand = <<>>
    /\ dealer_hand = <<>>
    /\ wire = <<>>
    /\ ret = "none"
    /\ game_deck = <<>>
    /\ drawn = <<>>
    /\ draws = 0
    /\ call = [fn |-> "none"]
    /\ handshake = "pending"
    /\ seeker = [pc |-> "listening", seen |-> <<>>, result |-> <<>>]
    /\ udp = [pc |-> "idle"]
    /\ conns = <<>>
    /\ acceptor = [pc |-> "idle"]
    /\ tally = [phase |-> "idle"]
    /\ table = [pc |-> "idle"]

\* find_server, lines 108-121: one pass of the loop.  A datagram that raises
\* ValueError in unpack_offer is passed over; the first that does not ends
\* the loop with its source address and its port.
SeekerReceive ==
    /\ seeker.pc = "listening"
    /\ Len(seeker.seen) < MaxDatagrams
    /\ \E datagram \in Datagrams :
        LET offer == unpack_offer(datagram.data) IN
        IF offer.err # "none"
        THEN seeker' = [seeker EXCEPT !.seen = Append(@, datagram)]
        ELSE seeker' = [pc |-> "returned",
                        seen |-> Append(seeker.seen, datagram),
                        result |-> <<datagram.addr, offer.server_port>>]
    /\ UNCHANGED <<session, game_deck, drawn, draws, call, udp, conns,
                   acceptor, tally, table>>

\* find_server, lines 122-125: recvfrom raises; the socket is closed and the
\* exception goes up.
SeekerError ==
    /\ seeker.pc = "listening"
    /\ seeker' = [seeker EXCEPT !.pc = "raised"]
    /\ UNCHANGED <<session, game_deck, drawn, draws, call, udp, conns,
                   acceptor, tally, table>>

SeekerNext ==
    \/ SeekerReceive
    \/ SeekerError

SeekerSpec == SeekerInit /\ [][SeekerNext]_vars

\* A datagram is an Offer: long enough, with the cookie, the Offer type and a
\* name that is UTF-8.
IsOffer(data) ==
    /\ Len(data) >= 39
    /\ SubSeq(data, 1, 4) = MAGIC_COOKIE
    /\ data[5] = MSG_OFFER
    /\ Utf8Decode(SubSeq(data, 8, 39)).err = "none"

\* C27: find_server passes over every datagram that is no Offer and goes on
\* listening; it returns at the first datagram that is one, with that
\* datagram's source address and the port it carries, and returns nothing
\* taken from any other datagram.
C27_FirstValidOffer ==
    /\ seeker.pc \in {"listening", "raised"} =>
           /\ seeker.result = <<>>
           /\ \A i \in DOMAIN seeker.seen : ~IsOffer(seeker.seen[i].data)
    /\ seeker.pc = "returned" =>
           LET n == Len(seeker.seen)
               last == seeker.seen[n]
           IN  /\ IsOffer(last.data)
               /\ seeker.result
                      = <<last.addr, last.data[6] * 256 + last.data[7]>>
               /\ \A i \in 1..(n - 1) : ~IsOffer(seeker.seen[i].data)

\* C27 witness: after a datagram with the wrong type and one cut short, the
\* Offer of the second host was returned.
C27_Witness ==
    /\ seeker.pc = "returned"
    /\ Len(seeker.seen) = 3
    /\ seeker.seen[1].addr = "10.0.0.5"
    /\ seeker.seen[2].addr = "10.0.0.3"
    /\ seeker.result = <<"10.0.0.2", 65535>>

----------------------------------------------------------------------------
(* The host as a whole: Server.start, its broadcast thread and one thread
   for every accepted connection *)

MaxConns == 2

\* The connections that arrive at the listening socket.
ConnIds == 1..MaxConns

\* The orders in which random.shuffle leaves a deck of the host.
HostSeeds == {1, 2}

\* The port the operating system gave the listening socket.
tcp_port == 5000

\* A connection waiting in the listen queue: no thread, no round.
NoConn ==
    [pc |-> "Pending", rounds |-> 0, round_num |-> 0, seed |-> 0,
     deck |-> <<>>, player_hand |-> <<>>, dealer_hand |-> <<>>,
     sent |-> <<>>, ret |-> "none", end |-> "no"]

\* The Requests the peers send: those of RequestInputs that ask for at most
\* one round, and those that do not decode.
HostRequests ==
    { data \in RequestInputs :
        unpack_request(data).err # "none" \/ unpack_request(data).rounds <= 1 }

\* A plausible slip: the deck is kept on self, one for all threads, held here
\* with the first connection.
deck_owner_shared(c) == 1

\* play_round, line 133: deck is a local of the call, so the deck a thread
\* pops from is the one its own play_round created.
deck_owner(c) == c

\* list.pop() returns the last element.
Top(d) == d[Len(d)]
Pop(d) == SubSeq(d, 1, Len(d) - 1)

\* Server.__init__ and the first lines of start: the socket listens, the
\* broadcast thread has built its packet and is about to send.
HostInit ==
    /\ pc = "AwaitRequest"
    /\ rounds = 0
    /\ round_num = 0
    /\ deck = {}
    /\ player_hand = <<>>
    /\ dealer_hand = <<>>
    /\ wire = <<>>
    /\ ret = "none"
    /\ game_deck = <<>>
    /\ drawn = <<>>
    /\ draws = 0
    /\ call = [fn |-> "none"]
    /\ handshake = "pending"
    /\ seeker = [pc |-> "idle"]
    /\ udp = [pc |-> "sendto", last |-> "none",
              packet |-> pack_offer(tcp_port, SERVER_NAME)]
    /\ conns = [c \in ConnIds |-> NoConn]
    /\ acceptor = [pc |-> "accept", last |-> "none"]
    /\ tally = [phase |-> "idle"]
    /\ table = [pc |-> "idle"]

HostFrame ==
    UNCHANGED <<session, game_deck, drawn, draws, call, seeker, tally, table>>

\* broadcast_offer, lines 74-75: sendto succeeds; the thread sleeps.
BroadcastOffer ==
    /\ udp.pc = "sendto"
    /\ udp' = [udp EXCEPT !.pc = "sleep", !.last = "sent"]
    /\ UNCHANGED <<conns, acceptor>>
    /\ HostFrame

\* broadcast_offer, lines 74 and 76-78: sendto raises; the error is printed
\* and the thread sleeps.
BroadcastError ==
    /\ udp.pc = "sendto"
    /\ udp' = [udp EXCEPT !.pc = "sleep", !.last = "error"]
    /\ UNCHANGED <<conns, acceptor>>
    /\ HostFrame

\* broadcast_offer, lines 72, 75 and 78: the second is over, the loop goes
\* round.
BroadcastSleep ==
    /\ udp.pc = "sleep"
    /\ udp' = [udp EXCEPT !.pc = "sendto"]
    /\ UNCHANGED <<conns, acceptor>>
    /\ HostFrame

\* A plausible slip: handle_client is called in the accept loop itself, so
\* accept is not reached again before the session is over.
Accept_inline(c) ==
    /\ acceptor.pc = "accept"
    /\ conns[c].pc = "Pending"
    /\ \A d \in ConnIds \ {c} : conns[d].pc \in {"Pending", "Closed"}
    /\ conns' = [conns EXCEPT ![c].pc = "AwaitRequest"]
    /\ acceptor' = [acceptor EXCEPT !.last = "accepted"]
    /\ UNCHANGED udp
    /\ HostFrame

\* start, lines 50-60: accept returns connection c and a thread running
\* handle_client is started for it.
Accept(c) ==
    /\ acceptor.pc = "accept"
    /\ conns[c].pc = "Pending"
    /\ conns' = [conns EXCEPT ![c].pc = "AwaitRequest"]
    /\ acceptor' = [acceptor EXCEPT !.last = "accepted"]
    /\ UNCHANGED udp
    /\ HostFrame

\* A plausible slip: the try is around the loop, so an error of accept ends
\* the loop.
AcceptError_exits ==
    /\ acceptor.pc = "accept"
    /\ acceptor' = [pc |-> "stopped", last |-> "error"]
    /\ UNCHANGED <<udp, conns>>
    /\ HostFrame

\* start, lines 50-52 and 61-62: accept, or the start of the thread, raises;
\* the error is printed and the loop goes round.
AcceptError ==
    /\ acceptor.pc = "accept"
    /\ acceptor' = [pc |-> "accept", last |-> "error"]
    /\ UNCHANGED <<udp, conns>>
    /\ HostFrame

\* handle_client, lines 123-126, in the thread of c: an exception that no
\* inner handler names reaches handle_client's except clause; conn is closed
\* and the thread ends.
HostUnexpected(c) ==
    /\ conns[c].pc \in {"AwaitRequest", "RoundStart", "PlayerTurn",
                        "DealerReveal", "DealerLoop", "Resolve", "RoundDone"}
    /\ conns' = [conns EXCEPT
            ![deck_owner(c)].deck = <<>>,
            ![c].seed = 0,
            ![c].player_hand = <<>>,
            ![c].dealer_hand = <<>>,
            ![c].sent = <<>>,
            ![c].ret = "none",
            ![c].end = "abnormal",
            ![c].pc = "Closed"]
    /\ UNCHANGED <<udp, acceptor>>
    /\ HostFrame

\* handle_client, lines 100-115, in the thread of c: the Request does not
\* arrive or does not decode, and the thread returns; or it decodes and the
\* round loop starts.
HostHandshake(c) ==
    /\ conns[c].pc = "AwaitRequest"
    /\ \/ conns' = [conns EXCEPT ![c].pc = "Closed", ![c].end = "abnormal"]
       \/ \E data \in HostRequests :
            LET request == unpack_request(data) IN
            IF request.err # "none"
            THEN conns' = [conns EXCEPT ![c].pc = "Closed",
                                        ![c].end = "abnormal"]
            ELSE conns' = [conns EXCEPT
                    ![c].rounds = request.rounds,
                    ![c].round_num = IF request.rounds >= 1 THEN 1 ELSE 0,
                    ![c].end = IF request.rounds >= 1 THEN @ ELSE "normal",
                    ![c].pc = IF request.rounds >= 1
                              THEN "RoundStart" ELSE "Closed"]
    /\ UNCHANGED <<udp, acceptor>>
    /\ HostFrame

\* play_round, lines 133-148, in the thread of c.
HostDeal(c) ==
    /\ conns[c].pc = "RoundStart"
    /\ \E seed \in HostSeeds : \E n \in 0..3 :
        LET full == Shuffle(deck_list, seed)
            player == <<full[52], full[51]>>
            dealer == <<full[50], full[49]>>
            cards == initial_cards(player, dealer)
        IN  conns' = [conns EXCEPT
                ![deck_owner(c)].deck = SubSeq(full, 1, 48),
                ![c].seed = seed,
                ![c].player_hand = player,
                ![c].dealer_hand = dealer,
                ![c].sent = SubSeq(cards, 1, n),
                ![c].ret = IF n = 3 THEN "running" ELSE "False",
                ![c].pc = IF n = 3 THEN "PlayerTurn" ELSE "RoundDone"]
    /\ UNCHANGED <<udp, acceptor>>
    /\ HostFrame

\* play_round, lines 153-158 and 179-188, in the thread of c: the decision
\* does not arrive, or does not decode.
HostPlayerFail(c) ==
    /\ conns[c].pc = "PlayerTurn"
    /\ \/ TRUE
       \/ \E data \in DecisionInputs : unpack_player_decision(data).err # "none"
    /\ conns' = [conns EXCEPT ![c].ret = "False", ![c].pc = "RoundDone"]
    /\ UNCHANGED <<udp, acceptor>>
    /\ HostFrame

\* play_round, lines 160-174, in the thread of c: Hit.
HostHit(c) ==
    /\ conns[c].pc = "PlayerTurn"
    /\ \E data \in DecisionInputs : \E ok \in BOOLEAN :
        LET d == conns[deck_owner(c)].deck IN
        /\ unpack_player_decision(data).err = "none"
        /\ unpack_player_decision(data).decision = Hit
        /\ Len(d) > 0
        /\ LET new_card == Top(d)
               hand == Append(conns[c].player_hand, new_card)
               score == Server_calculate_score(hand)
           IN  conns' = [conns EXCEPT
                   ![deck_owner(c)].deck = Pop(d),
                   ![c].player_hand = hand,
                   ![c].sent = IF ok THEN Append(@, hit_reply(new_card, score))
                               ELSE @,
                   ![c].ret = IF ~ok THEN "False"
                              ELSE IF hit_ends_round(hand, score) THEN "True"
                              ELSE @,
                   ![c].pc = IF ~ok \/ hit_ends_round(hand, score)
                             THEN "RoundDone" ELSE @]
    /\ UNCHANGED <<udp, acceptor>>
    /\ HostFrame

\* play_round, lines 176-177, in the thread of c: Stand.
HostStand(c) ==
    /\ conns[c].pc = "PlayerTurn"
    /\ \E data \in DecisionInputs :
        /\ unpack_player_decision(data).err = "none"
        /\ unpack_player_decision(data).decision = Stand
    /\ conns' = [conns EXCEPT ![c].pc = "DealerReveal"]
    /\ UNCHANGED <<udp, acceptor>>
    /\ HostFrame

\* play_round, lines 192-195 and 214-215, in the thread of c.
HostDealerReveal(c) ==
    /\ conns[c].pc = "DealerReveal"
    /\ \E ok \in BOOLEAN :
        LET hand == conns[c].dealer_hand IN
        conns' = [conns EXCEPT
            ![c].sent = IF ok THEN Append(@, send_card(hand[2])) ELSE @,
            ![c].ret = IF ok THEN @ ELSE "False",
            ![c].pc = IF ~ok THEN "RoundDone"
                      ELSE IF DealerMustDraw(hand) THEN "DealerLoop"
                      ELSE "Resolve"]
    /\ UNCHANGED <<udp, acceptor>>
    /\ HostFrame

\* play_round, lines 198-215, in the thread of c: one pass of the dealer loop.
HostDealerDraw(c) ==
    /\ conns[c].pc = "DealerLoop"
    /\ \E ok \in BOOLEAN :
        LET d == conns[deck_owner(c)].deck IN
        /\ Len(d) > 0
        /\ LET new_card == Top(d)
               hand == Append(conns[c].dealer_hand, new_card)
               dealer_score == Server_calculate_score(hand)
           IN  conns' = [conns EXCEPT
                   ![deck_owner(c)].deck = Pop(d),
                   ![c].dealer_hand = hand,
                   ![c].sent = IF ok
                               THEN Append(@, dealer_reply(new_card,
                                                           dealer_score))
                               ELSE @,
                   ![c].ret = IF ~ok THEN "False"
                              ELSE IF dealer_score > 21 THEN "True" ELSE @,
                   ![c].pc = IF ~ok \/ dealer_score > 21 THEN "RoundDone"
                             ELSE IF DealerMustDraw(hand) THEN "DealerLoop"
                             ELSE "Resolve"]
    /\ UNCHANGED <<udp, acceptor>>
    /\ HostFrame

\* play_round, lines 217-241, in the thread of c.
HostResolve(c) ==
    /\ conns[c].pc = "Resolve"
    /\ \E ok \in BOOLEAN :
        LET player_score == Server_calculate_score(conns[c].player_hand)
            dealer_score == Server_calculate_score(conns[c].dealer_hand)
        IN  conns' = [conns EXCEPT
                ![c].sent = IF ok
                            THEN Append(@, pack_payload_server(
                                    result_code(player_score, dealer_score),
                                    0, 0))
                            ELSE @,
                ![c].ret = IF ok THEN "True" ELSE "False",
                ![c].pc = "RoundDone"]
    /\ UNCHANGED <<udp, acceptor>>
    /\ HostFrame

\* handle_client, lines 115-126, in the thread of c: play_round has returned
\* and its locals are gone; next round, or conn.close().
HostNextRound(c) ==
    /\ conns[c].pc = "RoundDone"
    /\ LET more == conns[c].ret = "True" /\ conns[c].round_num < conns[c].rounds
       IN  conns' = [conns EXCEPT
               ![deck_owner(c)].deck = <<>>,
               ![c].seed = 0,
               ![c].player_hand = <<>>,
               ![c].dealer_hand = <<>>,
               ![c].sent = <<>>,
               ![c].ret = "none",
               ![c].round_num = IF more THEN @ + 1 ELSE @,
               ![c].end = IF more THEN @
                          ELSE IF conns[c].ret = "True" THEN "normal"
                          ELSE "abnormal",
               ![c].pc = IF more THEN "RoundStart" ELSE "Closed"]
    /\ UNCHANGED <<udp, acceptor>>
    /\ HostFrame

\* One step of the broadcast thread.
Broadcast ==
    \/ BroadcastOffer
    \/ BroadcastError
    \/ BroadcastSleep

HostNext ==
    \/ BroadcastOffer
    \/ BroadcastError
    \/ BroadcastSleep
    \/ \E c \in ConnIds : Accept(c)
    \/ AcceptError
    \/ \E c \in ConnIds : HostHandshake(c)
    \/ \E c \in ConnIds : HostDeal(c)
    \/ \E c \in ConnIds : HostPlayerFail(c)
    \/ \E c \in ConnIds : HostHit(c)
    \/ \E c \in ConnIds : HostStand(c)
    \/ \E c \in ConnIds : HostDealerReveal(c)
    \/ \E c \in ConnIds : HostDealerDraw(c)
    \/ \E c \in ConnIds : HostResolve(c)
    \/ \E c \in ConnIds : HostNextRound(c)
    \/ \E c \in ConnIds : HostUnexpected(c)

HostSpec == HostInit /\ [][HostNext]_vars

\* The broadcast thread is scheduled again and again whatever the other
\* threads do, and sendto does not fail for ever.
HostLive ==
    /\ HostSpec
    /\ WF_vars(Broadcast)
    /\ SF_vars(BroadcastOffer)

InRound(c) ==
    conns[c].pc \in {"PlayerTurn", "DealerReveal", "DealerLoop", "Resolve"}

\* The deck of c is what is left of the deck its round created, its hands are
\* the cards popped from that deck, every card it sent is in its hands, and an
\* outcome with a zeroed card is the comparison of its own two hands.
OwnRound(c) ==
    LET s == conns[c]
        full == Shuffle(deck_list, s.seed)
        n == Len(s.deck)
        held == CardsOf(s.player_hand) \cup CardsOf(s.dealer_hand)
    IN  /\ s.deck = SubSeq(full, 1, n)
        /\ held = { full[k] : k \in (n + 1)..52 }
        /\ n + Len(s.player_hand) + Len(s.dealer_hand) = 52
        /\ \A i \in DOMAIN s.sent :
               \/ IsZeroCard(s.sent[i])
               \/ <<s.sent[i].rank, s.sent[i].suit>> \in held
        /\ \A i \in DOMAIN s.sent :
               IsZeroCard(s.sent[i]) =>
                   s.sent[i].result
                       = result_code(Server_calculate_score(s.player_hand),
                                     Server_calculate_score(s.dealer_hand))

\* C29: a step changes the record (deck, hands, messages, position) of at most
\* one connection, and in every reachable state each session in a round holds
\* its own deck and has sent only what its own deck and hands give.
C29_SessionIsolation ==
    /\ [][\A c \in ConnIds :
            conns'[c] # conns[c] =>
                \A d \in ConnIds \ {c} : conns'[d] = conns[d]]_vars
    /\ [](\A c \in ConnIds :
            (InRound(c) \/ (conns[c].pc = "RoundDone" /\ conns[c].seed # 0))
                => OwnRound(c))

\* C29 witness: two sessions are in a round at once, each with a deck of its
\* own order; the first has drawn a card for its player, the second is about
\* to compare the hands.
C29_Witness ==
    /\ conns[1].pc = "PlayerTurn"
    /\ Len(conns[1].player_hand) = 3
    /\ conns[2].pc = "Resolve"
    /\ conns[1].seed # conns[2].seed
    /\ Len(conns[1].deck) = 47
    /\ Len(conns[2].deck) = 48

\* One step of the thread that serves c.
SessionStep(c) ==
    \/ HostHandshake(c)
    \/ HostDeal(c)
    \/ HostPlayerFail(c)
    \/ HostHit(c)
    \/ HostStand(c)
    \/ HostDealerReveal(c)
    \/ HostDealerDraw(c)
    \/ HostResolve(c)
    \/ HostNextRound(c)

\* C39: the step in which a session ends abnormally changes nothing but that
\* session's own connection; an error of accept changes no connection and
\* leaves the loop accepting; and in every reachable state, whatever sessions
\* have ended abnormally and whatever accept has raised, each pending
\* connection can be accepted and each session that has not ended can take
\* its next step.
C39_FailureContained ==
    /\ [][\A c \in ConnIds :
            (conns[c].end # "abnormal" /\ conns'[c].end = "abnormal") =>
                /\ \A d \in ConnIds \ {c} : conns'[d] = conns[d]
                /\ acceptor' = acceptor
                /\ udp' = udp]_vars
    /\ [][acceptor' # acceptor =>
            /\ udp' = udp
            /\ acceptor'.last = "error" => conns' = conns]_vars
    /\ [](acceptor.pc = "accept")
    /\ [](\A c \in ConnIds :
            /\ conns[c].pc = "Pending" => ENABLED Accept(c)
            /\ conns[c].pc \notin {"Pending", "Closed"} =>
                   ENABLED SessionStep(c))

\* C39 witness: the first session has ended abnormally and accept has raised
\* since; the second connection is in its player turn.
C39_Witness ==
    /\ conns[1].pc = "Closed"
    /\ conns[1].end = "abnormal"
    /\ acceptor.last = "error"
    /\ conns[2].pc = "PlayerTurn"

----------------------------------------------------------------------------
(* The round: busts and cards *)

\* C33: in a round the host completes, a player whose final score, as the
\* host computes it, exceeds 21 is sent Loss as the outcome.
C33_BustedPlayerLoses ==
    (pc = "RoundDone" /\ ret = "True"
        /\ Server_calculate_score(player_hand) > 21)
    => Last(wire).result = RESULT_LOSS

\* receive_and_print_card, lines 313-327: the message decodes and, if its
\* result is Continue, its card is a valid one.
ClientTakes(m) ==
    LET payload == unpack_payload_server(m.bytes) IN
    /\ payload.err = "none"
    /\ payload.result_code = RESULT_CONTINUE =>
           /\ 1 <= payload.card_rank /\ payload.card_rank <= 13
           /\ 0 <= payload.card_suit /\ payload.card_suit <= 3

\* The messages of the round that the host sent.
Sends == { i \in DOMAIN wire : IsSend(wire[i]) }

\* C36: every Continue message, and the message of a player bust or a dealer
\* bust, carries a card of rank 1..13 and suit 0..3; the cards of the messages
\* of a round are pairwise distinct and are cards popped from the round's
\* deck; and the client's check of a received message rejects none of them.
C36_ValidDistinctCards ==
    /\ \A i \in Sends :
        /\ wire[i].result = RESULT_CONTINUE =>
               wire[i].rank \in Ranks /\ wire[i].suit \in Suits
        /\ ~IsZeroCard(wire[i]) =>
               /\ wire[i].rank \in Ranks /\ wire[i].suit \in Suits
               /\ <<wire[i].rank, wire[i].suit>>
                      \in (CardsOf(player_hand) \cup CardsOf(dealer_hand))
               /\ <<wire[i].rank, wire[i].suit>> \notin deck
        /\ ClientTakes(wire[i])
    /\ \A i, j \in Sends :
        (i # j /\ ~IsZeroCard(wire[i]) /\ ~IsZeroCard(wire[j])) =>
            <<wire[i].rank, wire[i].suit>> # <<wire[j].rank, wire[j].suit>>
    /\ (pc = "RoundDone" /\ ret = "True"
            /\ (PlayerBustState \/ DealerBustState)) =>
           ~IsZeroCard(Last(wire))

\* C36 witness: the player drew a card and busted on the next; the five
\* messages of the round carry five different cards.
C36_Witness ==
    /\ pc = "RoundDone"
    /\ ret = "True"
    /\ PlayerBustState
    /\ Len(player_hand) = 4
    /\ Cardinality({ <<wire[i].rank, wire[i].suit>> : i \in Sends }) = 5
    /\ Last(wire).result = RESULT_LOSS

----------------------------------------------------------------------------
(* How many cards a round of the host can draw.  calculate_score is a sum
   over the cards, so a hand is kept as its score and the deck as the number
   of cards left of each value; a shuffle is resolved at each pop, which may
   return any card that is left. *)

\* The values calculate_score gives a card.
CardValues == { CardScore(rank) : rank \in Ranks }

\* create_deck: how many of the 52 cards have each value.
FullCounts ==
    [v \in CardValues |->
        Cardinality({ k \in DOMAIN deck_list : CardScore(deck_list[k][1]) = v })]

\* The values deck.pop() may return, and the deck after it.
Left(counts) == { v \in CardValues : counts[v] > 0 }
Take(counts, v) == [counts EXCEPT ![v] = @ - 1]

\* play_round, line 133: a new deck, nothing drawn yet.
DrawInit ==
    /\ pc = "AwaitRequest"
    /\ rounds = 0
    /\ round_num = 0
    /\ deck = {}
    /\ player_hand = <<>>
    /\ dealer_hand = <<>>
    /\ wire = <<>>
    /\ ret = "none"
    /\ game_deck = <<>>
    /\ drawn = <<>>
    /\ draws = 0
    /\ call = [fn |-> "none"]
    /\ handshake = "pending"
    /\ seeker = [pc |-> "idle"]
    /\ udp = [pc |-> "idle"]
    /\ conns = <<>>
    /\ acceptor = [pc |-> "idle"]
    /\ tally = [phase |-> "start", left |-> FullCounts, player |-> 0,
                dealer |-> 0, drawn |-> 0]
    /\ table = [pc |-> "idle"]

TallyFrame ==
    UNCHANGED <<session, game_deck, drawn, draws, call, seeker, udp, conns,
                acceptor, table>>

\* play_round, lines 136-137: the four pops of the initial deal.
TallyDeal ==
    /\ tally.phase = "start"
    /\ \E p1 \in Left(tally.left) :
       \E p2 \in Left(Take(tally.left, p1)) :
       \E d1 \in Left(Take(Take(tally.left, p1), p2)) :
       \E d2 \in Left(Take(Take(Take(tally.left, p1), p2), d1)) :
        tally' = [phase |-> "player",
                  left |-> Take(Take(Take(Take(tally.left, p1), p2), d1), d2),
                  player |-> p1 + p2,
                  dealer |-> d1 + d2,
                  drawn |-> 4]
    /\ TallyFrame

\* play_round, lines 160-174: a Hit pops a card; the round is over when the
\* score exceeds 21.  A pop from an empty list raises IndexError.
TallyHit ==
    /\ tally.phase = "player"
    /\ IF Left(tally.left) = {}
       THEN tally' = [tally EXCEPT !.phase = "IndexError"]
       ELSE \E v \in Left(tally.left) :
            LET score == tally.player + v IN
            tally' = [tally EXCEPT
                !.left = Take(@, v),
                !.player = score,
                !.drawn = @ + 1,
                !.phase = IF hit_ends_round(<<>>, score) THEN "done" ELSE @]
    /\ TallyFrame

\* play_round, lines 176-177 and 198: Stand; the dealer's turn.
TallyStand ==
    /\ tally.phase = "player"
    /\ tally' = [tally EXCEPT !.phase = "dealer"]
    /\ TallyFrame

\* play_round, lines 198-213: the dealer pops a card while the score is
\* below 17.
TallyDealerDraw ==
    /\ tally.phase = "dealer"
    /\ tally.dealer < 17
    /\ IF Left(tally.left) = {}
       THEN tally' = [tally EXCEPT !.phase = "IndexError"]
       ELSE \E v \in Left(tally.left) :
            tally' = [tally EXCEPT
                !.left = Take(@, v),
                !.dealer = @ + v,
                !.drawn = @ + 1]
    /\ TallyFrame

\* play_round, lines 198 and 205-241: the dealer loop is left and the round
\* returns.
TallyReturn ==
    /\ tally.phase = "dealer"
    /\ tally.dealer >= 17
    /\ tally' = [tally EXCEPT !.phase = "done"]
    /\ TallyFrame

DrawNext ==
    \/ TallyDeal
    \/ TallyHit
    \/ TallyStand
    \/ TallyDealerDraw
    \/ TallyReturn

DrawSpec == DrawInit /\ [][DrawNext]_vars

RECURSIVE SumCounts(_, _)
SumCounts(counts, vs) ==
    IF vs = {} THEN 0
    ELSE LET v == CHOOSE x \in vs : TRUE
         IN  counts[v] + SumCounts(counts, vs \ {v})

\* C37: whatever the deck order and the decisions, no pop of a round finds
\* the deck empty: the cards drawn and the cards left are the 52 of the deck,
\* the player draws no card after a Hit that took the score above 21, and the
\* number of cards drawn in the round stays below 52 (it is at most 13).
C37_DeckNeverEmpty ==
    /\ tally.phase # "IndexError"
    /\ tally.drawn + SumCounts(tally.left, CardValues) = 52
    /\ (tally.phase = "player" /\ tally.drawn > 4) => tally.player <= 21
    /\ tally.drawn < 52
    /\ tally.drawn <= 13

\* C37 witness: a round that is over after thirteen pops, the most there are.
C37_Witness ==
    /\ tally.phase = "done"
    /\ tally.drawn = 13

----------------------------------------------------------------------------
(* The shipped client: Client.connect_and_play, Client.play_round,
   Client.receive_and_print_card and Client._update_stats *)

\* "TheHighRollers"
TEAM_NAME ==
    <<84, 104, 101, 72, 105, 103, 104, 82, 111, 108, 108, 101, 114, 115>>

\* Client.__init__, line 32, and start, line 82.
StartingBalance == 1000

\* start, lines 66-79.
NewStats ==
    [rounds_played |-> 0, wins |-> 0, losses |-> 0, ties |-> 0, hits |-> 0,
     stands |-> 0, total_wagered |-> 0, total_won |-> 0, biggest_win |-> 0,
     biggest_loss |-> 0]

\* The client when connect_and_play is called: the rounds and the betting mode
\* the user chose.  got counts the payloads received by their result.
NewClient(r, betting) ==
    [pc |-> "Connect", rounds |-> r, i |-> 0, player_hand |-> <<>>,
     dealer_up_card |-> 0, advice |-> "", stats |-> NewStats,
     betting_enabled |-> betting, balance |-> StartingBalance,
     current_bet |-> 0, sock |-> "open", error |-> "none",
     got |-> [continue |-> 0, over |-> 0, other |-> 0]]

\* Client.get_strategy_advice
get_strategy_advice(player_sum, dealer_card_rank) ==
    LET d_val == IF dealer_card_rank >= 10 THEN 10
                 ELSE IF dealer_card_rank = 1 THEN 11 ELSE dealer_card_rank
    IN  IF player_sum >= 17 THEN "Stand"
        ELSE IF player_sum <= 11 THEN "Hit"
        ELSE IF 12 <= player_sum /\ player_sum <= 16
        THEN (IF 2 <= d_val /\ d_val <= 6 THEN "Stand" ELSE "Hit")
        ELSE "Hit"

\* A plausible slip: a tie is counted as a round but in none of the three
\* counters.
update_stats_forgets_ties(cl, code) ==
    LET bet == cl.current_bet
        s1 == [cl.stats EXCEPT !.rounds_played = @ + 1]
        s2 == IF cl.betting_enabled /\ code = RESULT_WIN
              THEN [s1 EXCEPT !.total_won = @ + bet,
                              !.biggest_win = IF bet > @ THEN bet ELSE @]
              ELSE IF cl.betting_enabled /\ code = RESULT_LOSS
              THEN [s1 EXCEPT !.biggest_loss = IF bet > @ THEN bet ELSE @]
              ELSE s1
        s3 == IF code = RESULT_WIN THEN [s2 EXCEPT !.wins = @ + 1]
              ELSE IF code = RESULT_LOSS THEN [s2 EXCEPT !.losses = @ + 1]
              ELSE s2
    IN  [cl EXCEPT
            !.stats = s3,
            !.balance = IF cl.betting_enabled /\ code = RESULT_WIN
                        THEN @ + bet * 2
                        ELSE IF cl.betting_enabled /\ code = RESULT_LOSS
                        THEN @ - bet
                        ELSE @]

\* Client._update_stats
update_stats(cl, code) ==
    LET bet == cl.current_bet
        s1 == [cl.stats EXCEPT !.rounds_played = @ + 1]
        s2 == IF cl.betting_enabled /\ code = RESULT_WIN
              THEN [s1 EXCEPT !.total_won = @ + bet,
                              !.biggest_win = IF bet > @ THEN bet ELSE @]
              ELSE IF cl.betting_enabled /\ code = RESULT_LOSS
              THEN [s1 EXCEPT !.biggest_loss = IF bet > @ THEN bet ELSE @]
              ELSE s1
        s3 == IF code = RESULT_WIN THEN [s2 EXCEPT !.wins = @ + 1]
              ELSE IF code = RESULT_LOSS THEN [s2 EXCEPT !.losses = @ + 1]
              ELSE IF code = RESULT_TIE THEN [s2 EXCEPT !.ties = @ + 1]
              ELSE s2
    IN  [cl EXCEPT
            !.stats = s3,
            !.balance = IF cl.betting_enabled /\ code = RESULT_WIN
                        THEN @ + bet * 2
                        ELSE IF cl.betting_enabled /\ code = RESULT_LOSS
                        THEN @ - bet
                        ELSE @]

\* What a read of the socket brings: nine bytes, or recv_exact raising
\* TimeoutError or ConnectionError before it has nine.
Data(bytes) == [kind |-> "data", bytes |-> bytes]
NoData(e) == [kind |-> e, bytes |-> <<>>]

\* Client.receive_and_print_card: the client after the call, and what the
\* call returned: "rank" with the rank, "False", or "raise".
receive_and_print_card(cl, event) ==
    IF event.kind # "data"
    THEN [cl |-> cl, out |-> "raise", rank |-> 0, error |-> event.kind]
    ELSE LET payload == unpack_payload_server(event.bytes) IN
         IF payload.err # "none"
         THEN [cl |-> cl, out |-> "raise", rank |-> 0, error |-> "ValueError"]
         ELSE LET rank == payload.card_rank
                  suit == payload.card_suit
                  is_valid_card == (1 <= rank /\ rank <= 13)
                                       /\ (0 <= suit /\ suit <= 3)
              IN  IF payload.result_code = RESULT_CONTINUE
                  THEN IF ~is_valid_card
                       THEN [cl |-> cl, out |-> "raise", rank |-> 0,
                             error |-> "ValueError"]
                       ELSE [cl |-> cl, out |-> "rank", rank |-> rank,
                             error |-> "none"]
                  ELSE [cl |-> update_stats(cl, payload.result_code),
                        out |-> "False", rank |-> 0, error |-> "none"]

\* The payloads counted by their result: Continue, anything else, and among
\* these the results that are none of Tie, Loss and Win.
Counted(got, event) ==
    IF event.kind # "data" \/ unpack_payload_server(event.bytes).err # "none"
    THEN got
    ELSE LET code == unpack_payload_server(event.bytes).result_code IN
         IF code = RESULT_CONTINUE THEN [got EXCEPT !.continue = @ + 1]
         ELSE IF code \in {RESULT_TIE, RESULT_LOSS, RESULT_WIN}
         THEN [got EXCEPT !.over = @ + 1]
         ELSE [got EXCEPT !.over = @ + 1, !.other = @ + 1]

\* connect_and_play, lines 162-184: play_round returned False, or the loop is
\* over, or an exception was caught; the summary is printed and the socket
\* closed.  The locals of play_round are gone.
Leave(cl, e) ==
    [cl EXCEPT !.pc = "Closed", !.sock = "closed", !.error = e,
               !.player_hand = <<>>, !.dealer_up_card = 0, !.advice = ""]

\* connect_and_play, lines 145 and 161-163: play_round returned True.
NextIteration(cl) ==
    [cl EXCEPT !.pc = "RoundTop", !.i = @ + 1,
               !.player_hand = <<>>, !.dealer_up_card = 0, !.advice = ""]

\* play_round, lines 235-239: the value of the hand and the advice shown
\* before the decision is asked for.
Advised(cl) ==
    [cl EXCEPT !.pc = "Decide",
               !.advice = get_strategy_advice(
                              calculate_hand_value(cl.player_hand),
                              cl.dealer_up_card)]

\* A plausible slip: a message that does not decode is skipped and the next
\* one read.
AfterReceive_skips(cl, event) ==
    LET r == receive_and_print_card(cl, event)
        c == [r.cl EXCEPT !.got = Counted(@, event)]
    IN  IF r.out = "raise" THEN c
        ELSE IF c.pc \in {"Deal1", "Deal2"}
        THEN IF r.out = "False" THEN Leave(c, "none")
             ELSE [c EXCEPT !.player_hand = Append(@, r.rank),
                            !.pc = IF c.pc = "Deal1" THEN "Deal2" ELSE "DealD"]
        ELSE IF c.pc = "DealD"
        THEN IF r.out = "False" THEN Leave(c, "none")
             ELSE Advised([c EXCEPT !.dealer_up_card = r.rank])
        ELSE IF c.pc = "HitCard"
        THEN IF r.out = "False" THEN NextIteration(c)
             ELSE Advised([c EXCEPT !.player_hand = Append(@, r.rank)])
        ELSE IF r.out = "False" THEN NextIteration(c)
             ELSE c

\* play_round, lines 223-230, 253-255 and 258-265: what the client does with
\* what one call of receive_and_print_card brought, at each of the places
\* where play_round calls it.
AfterReceive(cl, event) ==
    LET r == receive_and_print_card(cl, event)
        c == [r.cl EXCEPT !.got = Counted(@, event)]
    IN  IF r.out = "raise" THEN Leave(c, r.error)
        ELSE IF c.pc \in {"Deal1", "Deal2"}
        THEN IF r.out = "False" THEN Leave(c, "none")
             ELSE [c EXCEPT !.player_hand = Append(@, r.rank),
                            !.pc = IF c.pc = "Deal1" THEN "Deal2" ELSE "DealD"]
        ELSE IF c.pc = "DealD"
        THEN IF r.out = "False" THEN Leave(c, "none")
             ELSE Advised([c EXCEPT !.dealer_up_card = r.rank])
        ELSE IF c.pc = "HitCard"
        THEN IF r.out = "False" THEN NextIteration(c)
             ELSE Advised([c EXCEPT !.player_hand = Append(@, r.rank)])
        ELSE IF r.out = "False" THEN NextIteration(c)
             ELSE c

\* The places of play_round at which the client waits for a message.
Receiving == {"Deal1", "Deal2", "DealD", "HitCard", "DealerTurn"}

\* The bets the dialog of get_bet_amount lets through: between 1 and the
\* balance.
BetInputs(balance) == { b \in {1, 10, balance} : b > 0 /\ b <= balance }

\* connect_and_play, lines 145-160: the head of the round loop.
AtRoundTop(cl, bet) ==
    IF cl.i >= cl.rounds THEN Leave(cl, "none")
    ELSE IF cl.betting_enabled /\ cl.balance <= 0 THEN Leave(cl, "none")
    ELSE IF cl.betting_enabled
    THEN IF bet <= 0 \/ bet > cl.balance
         THEN [cl EXCEPT !.current_bet = bet, !.i = @ + 1]
         ELSE [cl EXCEPT !.current_bet = bet,
                         !.stats.total_wagered = @ + bet,
                         !.pc = "Deal1"]
    ELSE [cl EXCEPT !.pc = "Deal1"]

\* play_round, lines 246-253: after the decision was sent.
AfterDecision(cl, decision) ==
    IF decision = Stand
    THEN [cl EXCEPT !.stats.stands = @ + 1, !.pc = "DealerTurn"]
    ELSE [cl EXCEPT !.stats.hits = @ + 1, !.pc = "HitCard"]

ClientFrame ==
    UNCHANGED <<session, game_deck, drawn, draws, call, seeker, udp, conns,
                acceptor, tally>>

\* What the peer of PlayerSpec may make the client read: payloads with every
\* result and a result that is none, with valid cards, the card (0, 0), a rank
\* of 14 and a suit of 4; a payload with a wrong cookie and one with the
\* Request type; a timeout and a lost connection.  The Continue payloads of a
\* session are held to MaxContinues.
PeerCards == { <<1, 0>>, <<13, 3>>, <<0, 0>>, <<14, 0>>, <<5, 4>> }

PeerEvents ==
    { Data(PayloadBytes(code, card[1], card[2])) :
          code \in {RESULT_CONTINUE, RESULT_TIE, RESULT_LOSS, RESULT_WIN, 7},
          card \in PeerCards }
    \cup { Data(BadCookie \o <<MSG_PAYLOAD, RESULT_WIN, 0, 5, 1>>),
           Data(MAGIC_COOKIE \o <<MSG_REQUEST, RESULT_WIN, 0, 5, 1>>),
           NoData("TimeoutError"), NoData("ConnectionError") }

\* The numbers of rounds the user asks for.
PlayerRounds == {1, 2}

MaxContinues == 8

\* start, lines 63-91: the user has chosen the rounds and the betting mode, a
\* host was found, connect_and_play is called.
PlayerInit ==
    /\ pc = "AwaitRequest"
    /\ rounds = 0
    /\ round_num = 0
    /\ deck = {}
    /\ player_hand = <<>>
    /\ dealer_hand = <<>>
    /\ wire = <<>>
    /\ ret = "none"
    /\ game_deck = <<>>
    /\ drawn = <<>>
    /\ draws = 0
    /\ call = [fn |-> "none"]
    /\ handshake = "pending"
    /\ seeker = [pc |-> "idle"]
    /\ udp = [pc |-> "idle"]
    /\ conns = <<>>
    /\ acceptor = [pc |-> "idle"]
    /\ tally = [phase |-> "idle"]
    /\ \E r \in PlayerRounds, betting \in BOOLEAN :
        table = [pc |-> "peer", client |-> NewClient(r, betting),
                 c2h |-> <<>>]

\* connect_and_play, lines 131-142: connect and send the Request; an
\* exception of connect or sendall is caught at line 181.
ClientConnect ==
    /\ table.client.pc = "Connect"
    /\ \E ok \in BOOLEAN :
        LET request == pack_request(table.client.rounds, TEAM_NAME) IN
        IF ok /\ request.err = "none"
        THEN table' = [table EXCEPT !.client.pc = "RoundTop",
                                    !.c2h = Append(@, request.bytes)]
        ELSE table' = [table EXCEPT !.client = Leave(@, "ConnectionError")]
    /\ ClientFrame

\* connect_and_play, lines 145-160.
ClientRoundTop ==
    /\ table.client.pc = "RoundTop"
    /\ \E bet \in BetInputs(table.client.balance) \cup {0} :
        /\ bet = 0 <=> ~(table.client.betting_enabled
                            /\ table.client.i < table.client.rounds
                            /\ table.client.balance > 0)
        /\ table' = [table EXCEPT !.client = AtRoundTop(@, bet)]
    /\ ClientFrame

\* play_round, lines 241-253: get_valid_user_decision asks until the input
\* packs; the decision is packed and sent.  The hand is held to MaxHandLen
\* cards.
ClientDecide ==
    /\ table.client.pc = "Decide"
    /\ \E user_input \in UserInputs : \E ok \in BOOLEAN :
        /\ pack_player_decision(user_input).err = "none"
        /\ LET decision == Title(StripWs(user_input))
               packet == pack_player_decision(decision)
           IN  /\ decision = Hit => Len(table.client.player_hand) < MaxHandLen
               /\ IF ok
                  THEN table' = [table EXCEPT
                           !.client = AfterDecision(@, decision),
                           !.c2h = Append(@, packet.bytes)]
                  ELSE table' = [table EXCEPT
                           !.client = Leave(@, "ConnectionError")]
    /\ ClientFrame

\* receive_and_print_card, called from play_round: the peer's next message.
ClientReceive ==
    /\ table.client.pc \in Receiving
    /\ \E event \in PeerEvents :
        /\ Counted(table.client.got, event).continue <= MaxContinues
        /\ table' = [table EXCEPT !.client = AfterReceive(@, event),
                                  !.c2h = <<>>]
    /\ ClientFrame

PlayerNext ==
    \/ ClientConnect
    \/ ClientRoundTop
    \/ ClientDecide
    \/ ClientReceive

PlayerSpec == PlayerInit /\ [][PlayerNext]_vars

\* A message the client cannot take: none arrived, the cookie or the type is
\* wrong, or it says Continue with a card that is none.
Undecodable(event) ==
    \/ event.kind # "data"
    \/ Len(event.bytes) < 9
    \/ SubSeq(event.bytes, 1, 4) # MAGIC_COOKIE
    \/ event.bytes[5] # MSG_PAYLOAD
    \/ /\ event.bytes[6] = RESULT_CONTINUE
       /\ ~(/\ event.bytes[7] * 256 + event.bytes[8] \in Ranks
            /\ event.bytes[9] \in Suits)

\* C32: wherever the client waits for a message, a timeout, a lost
\* connection, a payload with a wrong cookie or type and a Continue with an
\* invalid card each end the session there: the socket is closed with the
\* error noted, the round index is not advanced, and a closed session takes no
\* further step, so it sends no decision and plays no round.
C32_DecodeFailureFatal ==
    /\ [](table.client.pc \in Receiving =>
            \A event \in PeerEvents :
                Undecodable(event) =>
                    LET after == AfterReceive(table.client, event) IN
                    /\ after.pc = "Closed"
                    /\ after.sock = "closed"
                    /\ after.error # "none"
                    /\ after.i = table.client.i
                    /\ after.stats = table.client.stats)
    /\ [](table.client.error # "none" =>
            table.client.pc = "Closed" /\ table.client.sock = "closed")
    /\ [][table.client.pc = "Closed" => table' = table]_vars

\* C32 witness: in the first of two rounds, after a Hit, a message that did
\* not decode closed the session.
C32_Witness ==
    /\ table.client.pc = "Closed"
    /\ table.client.error = "ValueError"
    /\ table.client.rounds = 2
    /\ table.client.i = 0
    /\ table.client.stats.hits = 1
    /\ table.client.stats.rounds_played = 0

\* C38: rounds_played is the number of payloads received whose result is not
\* Continue; it is wins + losses + ties when each of these results was Tie,
\* Loss or Win; and a step that leaves the number of such payloads unchanged,
\* as the receipt of a Continue does, leaves the four counters unchanged.
C38_StatsFollowWire ==
    /\ [](table.client.stats.rounds_played = table.client.got.over)
    /\ [](table.client.got.other = 0 =>
            table.client.stats.rounds_played
                = table.client.stats.wins + table.client.stats.losses
                      + table.client.stats.ties)
    /\ [][table'.client.got.over = table.client.got.over =>
            /\ table'.client.stats.rounds_played
                   = table.client.stats.rounds_played
            /\ table'.client.stats.wins = table.client.stats.wins
            /\ table'.client.stats.losses = table.client.stats.losses
            /\ table'.client.stats.ties = table.client.stats.ties]_vars

\* C38 witness: two rounds, one tied and one won, and seven Continue payloads.
C38_Witness ==
    /\ table.client.stats.rounds_played = 2
    /\ table.client.stats.ties = 1
    /\ table.client.stats.wins = 1
    /\ table.client.got.continue = 7
    /\ table.client.got.other = 0

\* C40: with betting enabled, the receipt of a Win raises the balance by the
\* bet, that of a Loss lowers it by the bet, that of a Tie leaves it, and
\* total_won grows by what a Win adds to the balance.
C40_PayoutOneToOne ==
    [][(table.client.betting_enabled
            /\ table'.client.stats.rounds_played
                   = table.client.stats.rounds_played + 1) =>
        LET bet == table.client.current_bet
            gain == table'.client.balance - table.client.balance
        IN  /\ table'.client.stats.wins > table.client.stats.wins =>
                   /\ gain = bet
                   /\ table'.client.stats.total_won
                          = table.client.stats.total_won + gain
            /\ table'.client.stats.losses > table.client.stats.losses =>
                   gain = 0 - bet
            /\ table'.client.stats.ties > table.client.stats.ties =>
                   gain = 0]_vars

\* ---------------------------------------------------------------------
\* The shipped client and the host at one table: one TCP connection, the
\* bytes of each direction delivered whole and in order.
\* ---------------------------------------------------------------------

\* The orders in which random.shuffle leaves the deck of a round; the last
\* deals the player an Ace and a King.
TableSeeds == {1, 2, 10}

\* handle_client when the thread starts.
NewHost ==
    [pc |-> "AwaitRequest", rounds |-> 0, round_num |-> 0, deck |-> <<>>,
     player_hand |-> <<>>, dealer_hand |-> <<>>, ret |-> "none",
     end |-> "no"]

\* The payloads the host sends, each noted with the round the host sent it in.
Stamped(payloads, n) ==
    [k \in 1..Len(payloads) |->
        [round |-> n, bytes |-> payloads[k].bytes]]

\* start of the client, lines 63-91, and start of the host, lines 50-60: the
\* user has chosen the rounds and the betting mode, the host has accepted the
\* connection.
TableInit ==
    /\ pc = "AwaitRequest"
    /\ rounds = 0
    /\ round_num = 0
    /\ deck = {}
    /\ player_hand = <<>>
    /\ dealer_hand = <<>>
    /\ wire = <<>>
    /\ ret = "none"
    /\ game_deck = <<>>
    /\ drawn = <<>>
    /\ draws = 0
    /\ call = [fn |-> "none"]
    /\ handshake = "pending"
    /\ seeker = [pc |-> "idle"]
    /\ udp = [pc |-> "idle"]
    /\ conns = <<>>
    /\ acceptor = [pc |-> "idle"]
    /\ tally = [phase |-> "idle"]
    /\ \E r \in PlayerRounds, betting \in BOOLEAN :
        table = [pc |-> "table", client |-> NewClient(r, betting),
                 host |-> NewHost, h2c |-> <<>>, c2h |-> <<>>,
                 mixed |-> FALSE]

\* sendall of the host: it succeeds while the client's socket is open; after
\* the client closed it may succeed or raise.
HostSendOk(ok) == ok \/ table.client.pc = "Closed"

\* sendall of the client, likewise.
ClientSendOk(ok) == ok \/ table.host.pc = "Closed"

\* connect_and_play, lines 131-142.
TableConnect ==
    /\ table.pc = "table"
    /\ table.client.pc = "Connect"
    /\ LET request == pack_request(table.client.rounds, TEAM_NAME) IN
       IF request.err = "none"
       THEN table' = [table EXCEPT !.client.pc = "RoundTop",
                                   !.c2h = Append(@, request.bytes)]
       ELSE table' = [table EXCEPT !.client = Leave(@, "ValueError")]
    /\ ClientFrame

\* connect_and_play, lines 145-160.
TableRoundTop ==
    /\ table.pc = "table"
    /\ table.client.pc = "RoundTop"
    /\ \E bet \in BetInputs(table.client.balance) \cup {0} :
        /\ bet = 0 <=> ~(table.client.betting_enabled
                            /\ table.client.i < table.client.rounds
                            /\ table.client.balance > 0)
        /\ table' = [table EXCEPT !.client = AtRoundTop(@, bet)]
    /\ ClientFrame

\* play_round of the client, lines 241-253: the user answers, the decision is
\* sent.
TableDecide ==
    /\ table.pc = "table"
    /\ table.client.pc = "Decide"
    /\ \E user_input \in UserInputs : \E ok \in BOOLEAN :
        /\ pack_player_decision(user_input).err = "none"
        /\ ClientSendOk(ok)
        /\ LET decision == Title(StripWs(user_input))
               packet == pack_player_decision(decision)
           IN  IF ok
               THEN table' = [table EXCEPT
                        !.client = AfterDecision(@, decision),
                        !.c2h = Append(@, packet.bytes)]
               ELSE table' = [table EXCEPT
                        !.client = Leave(@, "ConnectionError")]
    /\ ClientFrame

\* receive_and_print_card, called from play_round: the next nine bytes the
\* host sent, or, when the host has closed and nothing is left, the end of
\* the stream.
TableReceive ==
    /\ table.pc = "table"
    /\ table.client.pc \in Receiving
    /\ IF table.h2c # <<>>
       THEN table' = [table EXCEPT
                !.client = AfterReceive(@, Data(Head(table.h2c).bytes)),
                !.h2c = Tail(@),
                !.mixed = @ \/ Head(table.h2c).round # table.client.i + 1]
       ELSE /\ table.host.pc = "Closed"
            /\ table' = [table EXCEPT
                   !.client = AfterReceive(@, NoData("ConnectionError"))]
    /\ ClientFrame

\* unpack_request on the Requests the client of this table sends, worked out
\* once.
SentRequests ==
    [data \in { pack_request(r, TEAM_NAME).bytes : r \in PlayerRounds } |->
        unpack_request(data)]

\* handle_client, line 104: unpack_request on what was read.
ReadRequest(data) ==
    IF data \in DOMAIN SentRequests THEN SentRequests[data]
    ELSE unpack_request(data)

\* handle_client, lines 100-115: the Request is read; it does not decode and
\* the thread returns, or the round loop starts.
TableHandshake ==
    /\ table.pc = "table"
    /\ table.host.pc = "AwaitRequest"
    /\ IF table.c2h # <<>>
       THEN \E request \in {ReadRequest(Head(table.c2h))} :
            IF request.err # "none"
            THEN table' = [table EXCEPT !.c2h = Tail(@),
                                        !.host.pc = "Closed",
                                        !.host.end = "abnormal"]
            ELSE table' = [table EXCEPT
                    !.c2h = Tail(@),
                    !.host.rounds = request.rounds,
                    !.host.round_num = IF request.rounds >= 1 THEN 1 ELSE 0,
                    !.host.end = IF request.rounds >= 1 THEN @ ELSE "normal",
                    !.host.pc = IF request.rounds >= 1
                                THEN "RoundStart" ELSE "Closed"]
       ELSE /\ table.client.pc = "Closed"
            /\ table' = [table EXCEPT !.host.pc = "Closed",
                                      !.host.end = "abnormal"]
    /\ ClientFrame

\* play_round of the host, lines 133-148: the deck is shuffled, four cards are
\* popped and three of them sent.
TableDeal ==
    /\ table.pc = "table"
    /\ table.host.pc = "RoundStart"
    /\ \E seed \in TableSeeds : \E n \in 0..3 :
        LET full == Shuffle(deck_list, seed)
            player == <<full[52], full[51]>>
            dealer == <<full[50], full[49]>>
            cards == initial_cards(player, dealer)
        IN  /\ HostSendOk(n = 3)
            /\ table' = [table EXCEPT
                   !.host.deck = SubSeq(full, 1, 48),
                   !.host.player_hand = player,
                   !.host.dealer_hand = dealer,
                   !.host.ret = IF n = 3 THEN "running" ELSE "False",
                   !.host.pc = IF n = 3 THEN "PlayerTurn" ELSE "RoundDone",
                   !.h2c = @ \o Stamped(SubSeq(cards, 1, n),
                                        table.host.round_num)]
    /\ ClientFrame

\* play_round of the host, lines 153-188: the decision is read.  Hit pops a
\* card and sends it, with Loss when the hand is over 21; Stand goes on to the
\* dealer; no decision, or one that does not decode, ends the round with
\* False.
TableDecision ==
    /\ table.pc = "table"
    /\ table.host.pc = "PlayerTurn"
    /\ IF table.c2h = <<>>
       THEN /\ table.client.pc = "Closed"
            /\ table' = [table EXCEPT !.host.ret = "False",
                                      !.host.pc = "RoundDone"]
       ELSE \E read \in {unpack_player_decision(Head(table.c2h))} :
            IF read.err # "none"
            THEN table' = [table EXCEPT !.c2h = Tail(@),
                                        !.host.ret = "False",
                                        !.host.pc = "RoundDone"]
            ELSE IF read.decision = Stand
            THEN table' = [table EXCEPT !.c2h = Tail(@),
                                        !.host.pc = "DealerReveal"]
            ELSE \E ok \in BOOLEAN :
                 LET d == table.host.deck
                     new_card == Top(d)
                     hand == Append(table.host.player_hand, new_card)
                     score == Server_calculate_score(hand)
                 IN  /\ Len(d) > 0
                     /\ HostSendOk(ok)
                     /\ table' = [table EXCEPT
                            !.c2h = Tail(@),
                            !.host.deck = Pop(d),
                            !.host.player_hand = hand,
                            !.host.ret = IF ~ok THEN "False"
                                         ELSE IF hit_ends_round(hand, score)
                                         THEN "True" ELSE @,
                            !.host.pc = IF ~ok \/ hit_ends_round(hand, score)
                                        THEN "RoundDone" ELSE @,
                            !.h2c = IF ok
                                    THEN @ \o Stamped(
                                             <<hit_reply(new_card, score)>>,
                                             table.host.round_num)
                                    ELSE @]
    /\ ClientFrame

\* play_round of the host, lines 192-195: the dealer's hidden card is sent.
TableDealerReveal ==
    /\ table.pc = "table"
    /\ table.host.pc = "DealerReveal"
    /\ \E ok \in BOOLEAN :
        LET hand == table.host.dealer_hand IN
        /\ HostSendOk(ok)
        /\ table' = [table EXCEPT
               !.host.ret = IF ok THEN @ ELSE "False",
               !.host.pc = IF ~ok THEN "RoundDone"
                           ELSE IF DealerMustDraw(hand) THEN "DealerLoop"
                           ELSE "Resolve",
               !.h2c = IF ok
                       THEN @ \o Stamped(<<send_card(hand[2])>>,
                                         table.host.round_num)
                       ELSE @]
    /\ ClientFrame

\* play_round of the host, lines 198-215: one pass of the dealer loop.
TableDealerDraw ==
    /\ table.pc = "table"
    /\ table.host.pc = "DealerLoop"
    /\ \E ok \in BOOLEAN :
        LET d == table.host.deck
            new_card == Top(d)
            hand == Append(table.host.dealer_hand, new_card)
            dealer_score == Server_calculate_score(hand)
        IN  /\ Len(d) > 0
            /\ HostSendOk(ok)
            /\ table' = [table EXCEPT
                   !.host.deck = Pop(d),
                   !.host.dealer_hand = hand,
                   !.host.ret = IF ~ok THEN "False"
                                ELSE IF dealer_score > 21 THEN "True" ELSE @,
                   !.host.pc = IF ~ok \/ dealer_score > 21 THEN "RoundDone"
                               ELSE IF DealerMustDraw(hand) THEN "DealerLoop"
                               ELSE "Resolve",
                   !.h2c = IF ok
                           THEN @ \o Stamped(
                                    <<dealer_reply(new_card, dealer_score)>>,
                                    table.host.round_num)
                           ELSE @]
    /\ ClientFrame

\* play_round of the host, lines 217-241: the scores are compared and the
\* result sent.
TableResolve ==
    /\ table.pc = "table"
    /\ table.host.pc = "Resolve"
    /\ \E ok \in BOOLEAN :
        LET player_score == Server_calculate_score(table.host.player_hand)
            dealer_score == Server_calculate_score(table.host.dealer_hand)
        IN  /\ HostSendOk(ok)
            /\ table' = [table EXCEPT
                   !.host.ret = IF ok THEN "True" ELSE "False",
                   !.host.pc = "RoundDone",
                   !.h2c = IF ok
                           THEN @ \o Stamped(
                                    <<pack_payload_server(
                                        result_code(player_score,
                                                    dealer_score), 0, 0)>>,
                                    table.host.round_num)
                           ELSE @]
    /\ ClientFrame

\* handle_client, lines 115-126: play_round has returned; the next round, or
\* conn.close().
TableNextRound ==
    /\ table.pc = "table"
    /\ table.host.pc = "RoundDone"
    /\ LET more == table.host.ret = "True"
                       /\ table.host.round_num < table.host.rounds
       IN  table' = [table EXCEPT
               !.host.deck = <<>>,
               !.host.player_hand = <<>>,
               !.host.dealer_hand = <<>>,
               !.host.ret = "none",
               !.host.round_num = IF more THEN @ + 1 ELSE @,
               !.host.end = IF more THEN @
                            ELSE IF table.host.ret = "True" THEN "normal"
                            ELSE "abnormal",
               !.host.pc = IF more THEN "RoundStart" ELSE "Closed"]
    /\ ClientFrame

\* One step of the client's thread.
TableClient ==
    \/ TableConnect
    \/ TableRoundTop
    \/ TableDecide
    \/ TableReceive

\* One step of the host's thread for the connection.
TableHost ==
    \/ TableHandshake
    \/ TableDeal
    \/ TableDecision
    \/ TableDealerReveal
    \/ TableDealerDraw
    \/ TableResolve
    \/ TableNextRound

TableNext ==
    \/ TableConnect
    \/ TableRoundTop
    \/ TableDecide
    \/ TableReceive
    \/ TableHandshake
    \/ TableDeal
    \/ TableDecision
    \/ TableDealerReveal
    \/ TableDealerDraw
    \/ TableResolve
    \/ TableNextRound

TableSpec == TableInit /\ [][TableNext]_vars

\* Both threads are scheduled, and the user answers every prompt.
TableLive ==
    /\ TableSpec
    /\ WF_vars(TableClient)
    /\ WF_vars(TableHost)

\* The first two cards of a hand of the host are an Ace and a King.
AceKing(hand) ==
    /\ Len(hand) >= 2
    /\ {hand[1][1], hand[2][1]} = {1, 13}

\* C31: when the player's first two cards are an Ace and a King the host's
\* score of the hand is 21; the client requests no Hit and the host draws no
\* third card for the player; and when the host compares the scores with the
\* dealer below 21, the result it sends is Win.
C31_AceKingScenario ==
    /\ [](AceKing(table.host.player_hand) =>
            Server_calculate_score(SubSeq(table.host.player_hand, 1, 2)) = 21)
    /\ [][(table.client.pc = "Decide"
              /\ table.client.player_hand \in {<<1, 13>>, <<13, 1>>}) =>
            table'.client.pc # "HitCard"]_vars
    /\ [][AceKing(table.host.player_hand) =>
            Len(table'.host.player_hand) <= 2]_vars
    /\ [][(/\ table.host.pc = "Resolve"
           /\ AceKing(table.host.player_hand)
           /\ Len(table.host.player_hand) = 2
           /\ Server_calculate_score(table.host.dealer_hand) < 21
           /\ Len(table'.h2c) > Len(table.h2c)) =>
            table'.h2c[Len(table'.h2c)].bytes[6] = RESULT_WIN]_vars

\* C35: a client that closed with no error has played the rounds it asked for;
\* a host that closed in a session where the client met no error has completed
\* all the rounds; and the host does not wait for a decision once the client
\* has closed without error.
C35_RoundCountAgreement ==
    /\ table.client.pc = "Closed" /\ table.client.error = "none" =>
           table.client.stats.rounds_played = table.client.rounds
    /\ table.host.pc = "Closed" /\ table.client.error = "none" =>
           /\ table.host.end = "normal"
           /\ table.host.round_num = table.host.rounds
    /\ table.client.pc = "Closed" /\ table.client.error = "none" =>
           table.host.pc # "PlayerTurn"

\* C34: no message of one round is taken by the client in another; the two
\* sides never both wait to receive with nothing under way; when the client
\* is between rounds nothing of a round it has finished is unread; when both
\* sides have closed every message the host sent was read; and every round
\* the client is in comes to its end, as does the session.
C34_Lockstep ==
    /\ [](~table.mixed)
    /\ [](~(/\ table.client.pc \in Receiving
            /\ table.h2c = <<>>
            /\ table.host.pc \in {"AwaitRequest", "PlayerTurn"}
            /\ table.c2h = <<>>))
    /\ [](table.client.pc \in {"RoundTop", "Closed"} =>
            \A k \in 1..Len(table.h2c) :
                table.h2c[k].round > table.client.i)
    /\ [](table.client.pc = "Closed" /\ table.host.pc = "Closed" =>
            table.h2c = <<>> /\ table.c2h = <<>>)
    /\ (table.client.pc \in Receiving \cup {"Decide"}
            ~> table.client.pc \in {"RoundTop", "Closed"})
    /\ <>(table.client.pc = "Closed" /\ table.host.pc = "Closed")

====
